---- MODULE Spec2Model ----
(***************************************************************************)
(* Resume analysis pipeline: feature bundle -> rating -> suggestions, and  *)
(* the Streamlit front ends that drive it.                                 *)
(*                                                                         *)
(* Numbers.  Raw criterion scores are Python floats; here a raw score x is *)
(* the integer x * Scale, with Scale chosen so that every curve of         *)
(* rating_system.py is exact (denominators 2, 15, 75, 100, 250, 400, 500). *)
(* avg_sentence_length and complexity_ratio are carried in hundredths, the *)
(* precision calculate_readability rounds them to.  Values rounded to one  *)
(* decimal (overall_score, the reported detailed_scores, contributions)    *)
(* are integers in tenths.  Rounding is done on the exact decimal value,   *)
(* ties to even; a Python float that sits on a decimal tie (x.x5) may be   *)
(* rounded to either neighbour, so at such ties the reported tenth can be  *)
(* one off from the model's.                                               *)
(*                                                                         *)
(* A skill list is represented by its length and a project sentence by its *)
(* number of whitespace-delimited words: the only things the scorers and   *)
(* the suggestion generators read from them.                               *)
(***************************************************************************)
EXTENDS Integers, Sequences, FiniteSets, TLC

VARIABLES
    analysis_result,    \* the feature bundle handed to the scorers
    fn,                 \* name of the scorer that was called, or "none"
    ret,                \* its return value (raw score * Scale), -1 before a call
    calls,              \* the functions the last operation invoked
    rating_result,      \* result of calculate_overall_score, NoResult before
    suggestions_result, \* result of generate_suggestions, NoResult before
    app,                \* the entry point being run: "app" or "main_app"
    pc,                 \* position of main() in the current script run
    uploaded_file,      \* what st.file_uploader returned in this run
    parsing_result,     \* result of parse_pdf, NoResult before
    summary_result,     \* result of generate_professional_summary
    session_state,      \* st.session_state: survives from run to run
    stages,             \* pipeline functions invoked in this run, in order
    messages,           \* st.success/info/warning/error boxes of this run
    displayed,          \* the results rendered in this run, NoResult if none
    download,           \* the report of the download button, NoResult if none
    resume_text,        \* the text handed to analyze_resume
    job_title,          \* the title handed to compare_with_job
    comparison_result,  \* result of compare_with_job, NoResult before
    seed,               \* the seed random.seed() is given before a run
    hash_order,         \* iteration order of a set of strings in this process
    runs                \* what each run of score and suggest returned so far

appVars ==
    <<app, pc, uploaded_file, parsing_result, summary_result, session_state,
      stages, messages, displayed, download>>

analyzerVars == <<resume_text, job_title, comparison_result>>

repeatVars == <<seed, hash_order, runs>>

vars ==
    <<analysis_result, fn, ret, calls, rating_result, suggestions_result,
      appVars, analyzerVars, repeatVars>>

\* a local that has not been assigned, and Python's None for a file
NoResult == [none |-> TRUE]

----------------------------------------------------------------------------
(* Fixed-point helpers *)

\* least common multiple of the curves' denominators
Scale == 16 * 3 * 125

Min(a, b) == IF a <= b THEN a ELSE b
Max(a, b) == IF a >= b THEN a ELSE b

\* dict.get(key, default)
Get(d, k, default) == IF k \in DOMAIN d THEN d[k] ELSE default

\* the empty dict {}
EmptyMap == [k \in {} |-> 0]

\* round(num/den) to the nearest integer, ties to even: round(x, 1) on tenths
RoundHalfEven(num, den) ==
    LET q == num \div den
        r == num % den
    IN  IF 2 * r < den THEN q
        ELSE IF 2 * r > den THEN q + 1
        ELSE IF q % 2 = 0 THEN q ELSE q + 1

\* round(score, 1) of a raw score, in tenths
Round1(score) == RoundHalfEven(score * 10, Scale)

----------------------------------------------------------------------------
(* ResumeRatingSystem.__init__ : weights (in hundredths) and thresholds *)

Criteria ==
    << "skills_diversity", "skills_quantity", "contact_completeness",
       "sections_completeness", "readability", "project_quality",
       "content_length" >>

CriteriaSet == { Criteria[i] : i \in 1..Len(Criteria) }

weights ==
    [ skills_diversity |-> 20, skills_quantity |-> 15,
      contact_completeness |-> 10, sections_completeness |-> 15,
      readability |-> 15, project_quality |-> 15, content_length |-> 10 ]

min_skills == 5
ideal_skills == 15
min_word_count == 150
ideal_word_count == 400
max_word_count == 800
min_projects == 1
ideal_projects == 3
ideal_sentence_length == 1500
max_sentence_length == 2500

----------------------------------------------------------------------------
(* The seven criterion scorers *)

RECURSIVE SumOver(_, _)
\* sum(f[k] for k in S)
SumOver(f, S) ==
    IF S = {} THEN 0
    ELSE LET k == CHOOSE x \in S : TRUE
         IN  f[k] + SumOver(f, S \ {k})

score_skills_diversity(skills) ==
    IF DOMAIN skills = {} THEN 0
    ELSE LET categories == Cardinality(DOMAIN skills)
         IN  IF categories >= 5 THEN 10 * Scale
             ELSE IF categories >= 3
                  THEN 7 * Scale + (categories - 3) * ((15 * Scale) \div 10)
             ELSE IF categories >= 1
                  THEN 4 * Scale + (categories - 1) * ((15 * Scale) \div 10)
             ELSE 0

\* mutant: the below-minimum branch climbs to 7.0 instead of 5.0
score_skills_quantity_steep(skills) ==
    IF DOMAIN skills = {} THEN 0
    ELSE LET total_skills == SumOver(skills, DOMAIN skills)
         IN  IF total_skills >= ideal_skills THEN 10 * Scale
             ELSE IF total_skills >= min_skills
                  THEN 5 * Scale
                       + ((total_skills - min_skills) * 5 * Scale)
                         \div (ideal_skills - min_skills)
             ELSE (total_skills * 7 * Scale) \div min_skills

score_skills_quantity(skills) ==
    IF DOMAIN skills = {} THEN 0
    ELSE LET total_skills == SumOver(skills, DOMAIN skills)
         IN  IF total_skills >= ideal_skills THEN 10 * Scale
             ELSE IF total_skills >= min_skills
                  THEN 5 * Scale
                       + ((total_skills - min_skills) * 5 * Scale)
                         \div (ideal_skills - min_skills)
             ELSE (total_skills * 5 * Scale) \div min_skills

essential_fields == {"email", "phone"}
bonus_fields == {"linkedin", "github"}

\* mutant: a field counts only when its value is a non-empty string
score_contact_completeness_truthy(contact_info) ==
    IF DOMAIN contact_info = {} THEN 0
    ELSE LET filled == { f \in DOMAIN contact_info : contact_info[f] # "" }
             score ==
                 Cardinality(essential_fields \cap filled)
                     * ((35 * Scale) \div 10)
               + Cardinality(bonus_fields \cap filled)
                     * ((15 * Scale) \div 10)
         IN  Min(score, 10 * Scale)

score_contact_completeness(contact_info) ==
    IF DOMAIN contact_info = {} THEN 0
    ELSE LET score ==
                 Cardinality(essential_fields \cap DOMAIN contact_info)
                     * ((35 * Scale) \div 10)
               + Cardinality(bonus_fields \cap DOMAIN contact_info)
                     * ((15 * Scale) \div 10)
         IN  Min(score, 10 * Scale)

essential_sections == {"experience", "education", "skills"}
important_sections == {"summary", "projects"}
bonus_sections == {"certifications", "achievements"}

\* sections.get(section, False)
SectionPresent(sections, section) == Get(sections, section, FALSE)

score_sections_completeness(sections) ==
    IF DOMAIN sections = {} THEN 0
    ELSE LET count(S) == Cardinality({s \in S : SectionPresent(sections, s)})
             score == count(essential_sections) * 2 * Scale
                    + count(important_sections) * ((15 * Scale) \div 10)
                    + count(bonus_sections) * ((5 * Scale) \div 10)
         IN  Min(score, 10 * Scale)

score_readability(readability_metrics) ==
    IF DOMAIN readability_metrics = {} THEN 5 * Scale
    ELSE LET sentence_length ==
                 Get(readability_metrics, "avg_sentence_length", 2000)
             complexity_ratio ==
                 Get(readability_metrics, "complexity_ratio", 30)
             length_score ==
                 IF sentence_length <= ideal_sentence_length THEN 5 * Scale
                 ELSE IF sentence_length <= max_sentence_length
                      THEN 5 * Scale
                           - ((sentence_length - ideal_sentence_length)
                              * 2 * Scale)
                             \div (max_sentence_length - ideal_sentence_length)
                 ELSE 3 * Scale
             complexity_score ==
                 IF 20 <= complexity_ratio /\ complexity_ratio <= 40
                 THEN 5 * Scale
                 ELSE IF complexity_ratio < 20
                      THEN 3 * Scale + (complexity_ratio * 2 * Scale) \div 20
                 ELSE 5 * Scale - ((complexity_ratio - 40) * 2 * Scale) \div 30
         IN  Max(0, Min(length_score + complexity_score, 10 * Scale))

RECURSIVE QualityScore(_)
\* the loop over projects[:3]; a project is its word count
QualityScore(projects) ==
    IF projects = << >> THEN 0
    ELSE LET words == Head(projects)
         IN  (IF words >= 15 THEN (167 * Scale) \div 100
              ELSE IF words >= 8 THEN Scale
              ELSE (5 * Scale) \div 10)
             + QualityScore(Tail(projects))

\* projects[:n]
Take(s, n) == SubSeq(s, 1, Min(n, Len(s)))

\* mutant: the quality loop runs over projects[3:] instead of projects[:3]
score_project_quality_rest(projects) ==
    IF projects = << >> THEN 0
    ELSE LET num_projects == Len(projects)
             quantity_score ==
                 IF num_projects >= ideal_projects THEN 5 * Scale
                 ELSE IF num_projects >= min_projects
                      THEN 3 * Scale + ((num_projects - 1) * 2 * Scale) \div 2
                 ELSE 0
             quality_score == QualityScore(SubSeq(projects, 4, Len(projects)))
         IN  Min(quantity_score + quality_score, 10 * Scale)

\* mutant: the sum of the two sub-scores is returned without the cap
score_project_quality_uncapped(projects) ==
    IF projects = << >> THEN 0
    ELSE LET num_projects == Len(projects)
             quantity_score ==
                 IF num_projects >= ideal_projects THEN 5 * Scale
                 ELSE IF num_projects >= min_projects
                      THEN 3 * Scale + ((num_projects - 1) * 2 * Scale) \div 2
                 ELSE 0
             quality_score == QualityScore(Take(projects, 3))
         IN  quantity_score + quality_score

score_project_quality(projects) ==
    IF projects = << >> THEN 0
    ELSE LET num_projects == Len(projects)
             quantity_score ==
                 IF num_projects >= ideal_projects THEN 5 * Scale
                 ELSE IF num_projects >= min_projects
                      THEN 3 * Scale + ((num_projects - 1) * 2 * Scale) \div 2
                 ELSE 0
             quality_score == QualityScore(Take(projects, 3))
         IN  Min(quantity_score + quality_score, 10 * Scale)

score_content_length(word_count) ==
    IF word_count < min_word_count
    THEN (word_count * 4 * Scale) \div min_word_count
    ELSE IF word_count <= ideal_word_count
         THEN 7 * Scale
              + ((word_count - min_word_count) * 3 * Scale)
                \div (ideal_word_count - min_word_count)
    ELSE IF word_count <= max_word_count
         THEN 10 * Scale
              - ((word_count - ideal_word_count) * 3 * Scale)
                \div (max_word_count - ideal_word_count)
    ELSE 5 * Scale

----------------------------------------------------------------------------
(* calculate_overall_score and its helpers *)

\* criterion.replace('_', ' ').title()
TitleOf ==
    [ skills_diversity |-> "Skills Diversity",
      skills_quantity |-> "Skills Quantity",
      contact_completeness |-> "Contact Completeness",
      sections_completeness |-> "Sections Completeness",
      readability |-> "Readability",
      project_quality |-> "Project Quality",
      content_length |-> "Content Length" ]

RECURSIVE InsertStable(_, _, _, _)
\* insert x behind every element that does not sort strictly after it
InsertStable(x, s, key, reverse) ==
    IF s = << >> THEN << x >>
    ELSE LET h == Head(s)
         IN  IF (IF reverse THEN key[h] >= key[x] ELSE key[h] <= key[x])
             THEN << h >> \o InsertStable(x, Tail(s), key, reverse)
             ELSE << x >> \o s

RECURSIVE StableSort(_, _, _)
\* sorted(seq, key=..., reverse=...): Python's sort is stable in both directions
StableSort(seq, key, reverse) ==
    IF seq = << >> THEN << >>
    ELSE InsertStable(seq[Len(seq)],
                      StableSort(SubSeq(seq, 1, Len(seq) - 1), key, reverse),
                      key, reverse)

\* the local detailed_scores of calculate_overall_score (raw, unrounded)
DetailedScores(analysis) ==
    LET skills == Get(analysis, "skills", EmptyMap)
        contact_info == Get(analysis, "contact_info", EmptyMap)
        sections == Get(analysis, "sections", EmptyMap)
        readability == Get(analysis, "readability", EmptyMap)
        projects == Get(analysis, "projects", << >>)
        word_count == Get(readability, "word_count", 0)
    IN  [ skills_diversity |-> score_skills_diversity(skills),
          skills_quantity |-> score_skills_quantity(skills),
          contact_completeness |-> score_contact_completeness(contact_info),
          sections_completeness |-> score_sections_completeness(sections),
          readability |-> score_readability(readability),
          project_quality |-> score_project_quality(projects),
          content_length |-> score_content_length(word_count) ]

\* round(score * weight, 1), in tenths
Contribution(score, weight) == RoundHalfEven(score * weight * 10, Scale * 100)

\* the breakdown with breakdown.sort(key=...) left ascending
generate_score_breakdown_ascending(detailed_scores) ==
    LET contribution ==
            [c \in CriteriaSet |-> Contribution(detailed_scores[c], weights[c])]
        order == StableSort(Criteria, contribution, FALSE)
    IN  [i \in 1..Len(order) |->
            [ criterion |-> TitleOf[order[i]],
              score |-> detailed_scores[order[i]],
              weight |-> weights[order[i]],
              contribution |-> contribution[order[i]] ]]

generate_score_breakdown(detailed_scores) ==
    LET contribution ==
            [c \in CriteriaSet |-> Contribution(detailed_scores[c], weights[c])]
        order == StableSort(Criteria, contribution, TRUE)
    IN  [i \in 1..Len(order) |->
            [ criterion |-> TitleOf[order[i]],
              score |-> detailed_scores[order[i]],
              weight |-> weights[order[i]],
              contribution |-> contribution[order[i]] ]]

RECURSIVE SelectBelow(_, _, _)
\* the loop body of _identify_improvement_priorities over sorted_scores[:3]
SelectBelow(seq, detailed_scores, limit) ==
    IF seq = << >> THEN << >>
    ELSE (IF detailed_scores[Head(seq)] < limit
          THEN << TitleOf[Head(seq)] >> ELSE << >>)
         \o SelectBelow(Tail(seq), detailed_scores, limit)

\* mutant: the criteria are sorted highest score first
identify_improvement_priorities_highest(detailed_scores) ==
    LET sorted_scores == StableSort(Criteria, detailed_scores, TRUE)
    IN  SelectBelow(Take(sorted_scores, 3), detailed_scores, 7 * Scale)

\* mutant: the filter runs over all sorted criteria, not the first three
identify_improvement_priorities_unsliced(detailed_scores) ==
    LET sorted_scores == StableSort(Criteria, detailed_scores, FALSE)
    IN  SelectBelow(sorted_scores, detailed_scores, 7 * Scale)

identify_improvement_priorities(detailed_scores) ==
    LET sorted_scores == StableSort(Criteria, detailed_scores, FALSE)
    IN  SelectBelow(Take(sorted_scores, 3), detailed_scores, 7 * Scale)

\* mutant: the thresholds are compared with > instead of >=
rating_category_strict(overall_score) ==
    IF overall_score > 85 THEN "Excellent"
    ELSE IF overall_score > 70 THEN "Good"
    ELSE IF overall_score > 55 THEN "Average"
    ELSE IF overall_score > 30 THEN "Below Average"
    ELSE "Poor"

\* the if/elif chain on the rounded overall score (tenths)
rating_category(overall_score) ==
    IF overall_score >= 85 THEN "Excellent"
    ELSE IF overall_score >= 70 THEN "Good"
    ELSE IF overall_score >= 55 THEN "Average"
    ELSE IF overall_score >= 30 THEN "Below Average"
    ELSE "Poor"

rating_description(overall_score) ==
    IF overall_score >= 85
    THEN "Outstanding resume with strong impact potential"
    ELSE IF overall_score >= 70
    THEN "Solid resume with room for minor improvements"
    ELSE IF overall_score >= 55
    THEN "Decent resume but needs significant improvements"
    ELSE IF overall_score >= 30
    THEN "Resume needs major improvements to be competitive"
    ELSE "Resume requires complete overhaul"

\* sum(score * weights[criterion]) rounded to one decimal, in tenths
OverallScore(detailed_scores) ==
    LET weighted == [c \in CriteriaSet |-> detailed_scores[c] * weights[c]]
    IN  RoundHalfEven(SumOver(weighted, CriteriaSet) * 10, Scale * 100)

\* mutant: the error flag of the bundle is not looked at
calculate_overall_score_unguarded(analysis) ==
    LET detailed_scores == DetailedScores(analysis)
        overall_score == OverallScore(detailed_scores)
    IN  [ overall_score |-> overall_score,
          rating_category |-> rating_category(overall_score),
          rating_description |-> rating_description(overall_score),
          detailed_scores |->
              [c \in CriteriaSet |-> Round1(detailed_scores[c])],
          score_breakdown |-> generate_score_breakdown(detailed_scores),
          improvement_priority |->
              identify_improvement_priorities(detailed_scores) ]

calculate_overall_score(analysis) ==
    IF "error" \in DOMAIN analysis
    THEN [ overall_score |-> 0,
           detailed_scores |-> EmptyMap,
           error |-> analysis["error"] ]
    ELSE LET detailed_scores == DetailedScores(analysis)
             overall_score == OverallScore(detailed_scores)
         IN  [ overall_score |-> overall_score,
               rating_category |-> rating_category(overall_score),
               rating_description |-> rating_description(overall_score),
               detailed_scores |->
                   [c \in CriteriaSet |-> Round1(detailed_scores[c])],
               score_breakdown |-> generate_score_breakdown(detailed_scores),
               improvement_priority |->
                   identify_improvement_priorities(detailed_scores) ]

\* the scorers calculate_overall_score runs for a bundle
ScorersRun(analysis) ==
    IF "error" \in DOMAIN analysis THEN {}
    ELSE CriteriaSet

----------------------------------------------------------------------------
(* Input domains *)

MaxSkillsPerCategory == 3
MaxWordCount == 810
MaxProjects == 4
MaxSentenceSteps == 60

\* the five categories suggestions.py has templates for, and one it has not
SkillCategories ==
    { "programming_languages", "web_technologies", "databases",
      "cloud_platforms", "soft_skills", "tools" }

ContactFields == {"email", "phone", "linkedin", "github"}
ContactValues == {"a@b.com", "555-1234", ""}

SectionNames ==
    { "contact", "summary", "experience", "education", "skills", "projects",
      "certifications", "achievements" }

\* skills maps as extract_skills builds them: no empty list survives
SkillsMaps ==
    UNION { [D -> 1..MaxSkillsPerCategory] : D \in SUBSET SkillCategories }

\* skills maps whose lists are all empty (not produced by extract_skills)
EmptyListSkillsMaps == { [c \in D |-> 0] : D \in SUBSET SkillCategories }

ContactMaps == UNION { [D -> ContactValues] : D \in SUBSET ContactFields }

\* detect_sections sets all eight keys; {} comes with an error bundle;
\* a map with the single key skills is the bare-bones resume
SectionMaps ==
    [SectionNames -> BOOLEAN] \cup {EmptyMap} \cup {[s \in {"skills"} |-> TRUE]}

\* project word counts: too brief, decent (two sides of 10), substantial
ProjectWords == {5, 9, 12, 20}

ProjectLists == UNION { [1..n -> ProjectWords] : n \in 0..MaxProjects }

\* the readability map of calculate_readability for non-empty text
Readability(word_count, avg_sentence_length, complexity_ratio) ==
    [ word_count |-> word_count,
      avg_sentence_length |-> avg_sentence_length,
      complexity_ratio |-> complexity_ratio ]

\* the readability map of calculate_readability for zero sentences or words
ZeroReadability ==
    [ readability_score |-> 0, avg_sentence_length |-> 0, word_count |-> 0 ]

\* avg_sentence_length in steps of 0.5 words
SentenceLengths == { 50 * k : k \in 0..MaxSentenceSteps }
\* complexity_ratio from 0.00 to 1.00 in steps of 0.05
ComplexityRatios == { 5 * k : k \in 0..20 }

ReadabilityMaps ==
    { Readability(w, 1400, 30) : w \in 0..MaxWordCount }
    \cup { Readability(450, l, c) : l \in SentenceLengths,
                                    c \in ComplexityRatios }
    \cup { ZeroReadability, EmptyMap }

Bundle(skills, contact_info, sections, readability, projects) ==
    [ skills |-> skills, contact_info |-> contact_info,
      sections |-> sections, readability |-> readability,
      projects |-> projects ]

\* the bundle analyze_resume returns for blank text
ErrorBundle ==
    [ error |-> "No text provided for analysis",
      skills |-> EmptyMap, keywords |-> << >>, projects |-> << >>,
      contact_info |-> EmptyMap, sections |-> EmptyMap,
      readability |-> EmptyMap ]

IdealSkills ==
    [c \in SkillCategories \ {"tools"} |->
        IF c \in {"programming_languages", "web_technologies", "databases"}
        THEN 4 ELSE 3]
AllContact == [f \in ContactFields |-> "a@b.com"]
AllSections == [s \in SectionNames |-> TRUE]
IdealReadability == Readability(450, 1400, 30)
IdealProjects == << 20, 20, 20 >>

\* one field varies over its whole domain, the others are the ideal resume's
SliceBundles ==
    { Bundle(s, AllContact, AllSections, IdealReadability, IdealProjects) :
        s \in SkillsMaps \cup EmptyListSkillsMaps }
    \cup { Bundle(IdealSkills, c, AllSections, IdealReadability, IdealProjects) :
        c \in ContactMaps }
    \cup { Bundle(IdealSkills, AllContact, s, IdealReadability, IdealProjects) :
        s \in SectionMaps }
    \cup { Bundle(IdealSkills, AllContact, AllSections, r, IdealProjects) :
        r \in ReadabilityMaps }
    \cup { Bundle(IdealSkills, AllContact, AllSections, IdealReadability, p) :
        p \in ProjectLists }

\* every combination of a few representative values of each field
CornerSkills ==
    { EmptyMap,
      [c \in {"databases"} |-> 1],
      [c \in {"programming_languages", "databases", "tools"} |-> 2],
      [c \in {"programming_languages", "web_technologies", "databases",
              "soft_skills"} |-> 2],
      IdealSkills }
CornerContact ==
    { EmptyMap, [f \in {"email"} |-> "a@b.com"],
      [f \in {"email", "phone"} |-> "555-1234"], AllContact }
CornerSections ==
    { EmptyMap, [s \in {"skills"} |-> TRUE],
      [s \in SectionNames |-> s \in essential_sections], AllSections }
CornerReadability ==
    { EmptyMap, ZeroReadability, IdealReadability, Readability(80, 3000, 90),
      Readability(800, 2000, 10), Readability(801, 2500, 100) }
CornerProjects == { << >>, << 9 >>, << 5, 12 >>, IdealProjects }

CornerBundles ==
    { Bundle(s, c, t, r, p) :
        s \in CornerSkills, c \in CornerContact, t \in CornerSections,
        r \in CornerReadability, p \in CornerProjects }

\* bundles that carry an upstream error: the one analyze_resume builds, and
\* otherwise complete bundles that were annotated with an error
ErrorBundles ==
    { ErrorBundle }
    \cup { [ error |-> "Upstream failure", skills |-> s,
            contact_info |-> AllContact, sections |-> AllSections,
            readability |-> r, projects |-> IdealProjects ] :
          s \in {EmptyMap, IdealSkills},
          r \in {EmptyMap, IdealReadability} }

\* the bare-bones resume: nothing but a skills heading and 80 words, with
\* every sentence length and complexity ratio
BareBonesBundles ==
    { Bundle(EmptyMap, EmptyMap, t, Readability(80, l, c), << >>) :
        t \in { [s \in {"skills"} |-> TRUE],
                [s \in SectionNames |-> s = "skills"] },
        l \in SentenceLengths, c \in ComplexityRatios }

\* 18 skills spread over five categories
EighteenSkills ==
    UNION { { m \in [D -> {1, 3, 4, 14}] : SumOver(m, D) = 18 } :
              D \in { SkillCategories \ {c} : c \in SkillCategories } }

\* the ideal resume: 18 skills in five categories, every section and contact
\* field, three projects of 15 words or more, 450 words
IdealResumeBundles ==
    { Bundle(s, AllContact, AllSections, IdealReadability, p) :
        s \in EighteenSkills, p \in [1..3 -> {15, 20, 40}] }

ScoreBundles ==
    SliceBundles \cup CornerBundles \cup ErrorBundles \cup BareBonesBundles
    \cup IdealResumeBundles

----------------------------------------------------------------------------
(* Scoring: a bundle is drawn, then one scorer or the whole rating runs *)

\* no script run has started: the state of the application before a session
AppNotStarted ==
    /\ app = "none"
    /\ pc = "idle"
    /\ uploaded_file = NoResult
    /\ parsing_result = NoResult
    /\ summary_result = NoResult
    /\ session_state = EmptyMap
    /\ stages = << >>
    /\ messages = << >>
    /\ displayed = NoResult
    /\ download = NoResult

\* TextAnalyzer has not been called
AnalyzerNotCalled ==
    /\ resume_text = NoResult
    /\ job_title = NoResult
    /\ comparison_result = NoResult

\* no seeded run has been made
NotRepeated ==
    /\ seed = 0
    /\ hash_order = << >>
    /\ runs = << >>

InitScore ==
    /\ analysis_result \in ScoreBundles
    /\ fn = "none"
    /\ ret = -1
    /\ calls = {}
    /\ rating_result = NoResult
    /\ suggestions_result = NoResult
    /\ AppNotStarted
    /\ AnalyzerNotCalled
    /\ NotRepeated

Idle == fn = "none" /\ rating_result = NoResult

Return(name, value) ==
    /\ fn' = name
    /\ ret' = value
    /\ calls' = {name}
    /\ UNCHANGED <<analyzerVars, repeatVars>>
    /\ UNCHANGED <<analysis_result, rating_result, suggestions_result, appVars>>

CallScoreSkillsDiversity ==
    /\ Idle
    /\ Return("skills_diversity",
              score_skills_diversity(analysis_result.skills))

CallScoreSkillsQuantity ==
    /\ Idle
    /\ Return("skills_quantity",
              score_skills_quantity(analysis_result.skills))

CallScoreContactCompleteness ==
    /\ Idle
    /\ Return("contact_completeness",
              score_contact_completeness(analysis_result.contact_info))

CallScoreSectionsCompleteness ==
    /\ Idle
    /\ Return("sections_completeness",
              score_sections_completeness(analysis_result.sections))

CallScoreReadability ==
    /\ Idle
    /\ Return("readability", score_readability(analysis_result.readability))

CallScoreProjectQuality ==
    /\ Idle
    /\ Return("project_quality",
              score_project_quality(analysis_result.projects))

CallScoreContentLength ==
    /\ Idle
    /\ Return("content_length",
              score_content_length(
                  Get(analysis_result.readability, "word_count", 0)))

\* rate_resume(analysis_result)
RateResume ==
    /\ Idle
    /\ rating_result' = calculate_overall_score(analysis_result)
    /\ calls' = ScorersRun(analysis_result)
    /\ UNCHANGED <<analyzerVars, repeatVars>>
    /\ UNCHANGED <<analysis_result, fn, ret, suggestions_result, appVars>>

NextScore ==
    \/ CallScoreSkillsDiversity
    \/ CallScoreSkillsQuantity
    \/ CallScoreContactCompleteness
    \/ CallScoreSectionsCompleteness
    \/ CallScoreReadability
    \/ CallScoreProjectQuality
    \/ CallScoreContentLength
    \/ RateResume

SpecScore == InitScore /\ [][NextScore]_vars

----------------------------------------------------------------------------
(* Properties of the scoring engine, checked under SpecScore *)

HasError(bundle) == "error" \in DOMAIN bundle
Rated == rating_result # NoResult
RatedWell == Rated /\ ~HasError(analysis_result)

WordCountOf(bundle) == Get(bundle.readability, "word_count", 0)

\* C1: for a bundle without an error flag every scorer returns a value in
\* [0,10], and the report's seven detailed scores and its overall score lie
\* in [0,10].
ScoresWithinBounds ==
    /\ (fn # "none" /\ ~HasError(analysis_result))
           => (0 <= ret /\ ret <= 10 * Scale)
    /\ RatedWell
           => /\ DOMAIN rating_result.detailed_scores = CriteriaSet
              /\ \A c \in CriteriaSet :
                     rating_result.detailed_scores[c] \in 0..100
              /\ rating_result.overall_score \in 0..100

\* a report in which the project score hit its cap and the total is high
ScoresAtUpperBound ==
    /\ RatedWell
    /\ Len(analysis_result.projects) >= 3
    /\ rating_result.detailed_scores["project_quality"] = 100
    /\ rating_result.overall_score = 100

IsDegenerate(bundle) ==
    /\ ~HasError(bundle)
    /\ bundle.skills = EmptyMap
    /\ bundle.contact_info = EmptyMap
    /\ bundle.sections = EmptyMap
    /\ bundle.projects = << >>
    /\ bundle.readability \in {EmptyMap, ZeroReadability}

\* C2: the degenerate bundle (nothing extracted, zero words) scores 0.0 on
\* every criterion and overall, and is rated Poor.
DegenerateBundleScoresZero ==
    (Rated /\ IsDegenerate(analysis_result))
        => /\ \A c \in CriteriaSet : rating_result.detailed_scores[c] = 0
           /\ rating_result.overall_score = 0
           /\ rating_result.rating_category = "Poor"

\* C3: score_content_length returns exactly 7.0 at 150 words, 10.0 at 400
\* words and 5.0 at 800 words.
ContentLengthBoundaries ==
    (fn = "content_length" /\ ~HasError(analysis_result))
        => /\ WordCountOf(analysis_result) = 150 => ret = 7 * Scale
           /\ WordCountOf(analysis_result) = 400 => ret = 10 * Scale
           /\ WordCountOf(analysis_result) = 800 => ret = 5 * Scale

\* C4: a bundle carrying an error is not scored: no criterion scorer runs and
\* the result is overall_score 0.0, an empty detailed_scores map and the
\* bundle's error.
ErrorBundleShortCircuits ==
    (Rated /\ HasError(analysis_result))
        => /\ calls = {}
           /\ rating_result =
                  [ overall_score |-> 0, detailed_scores |-> EmptyMap,
                    error |-> analysis_result.error ]

\* an error-annotated bundle that has content the scorers would have scored
ErrorBundleWithContentRated ==
    /\ Rated
    /\ HasError(analysis_result)
    /\ analysis_result.skills # EmptyMap
    /\ analysis_result.readability # EmptyMap

CriterionIndex(c) == CHOOSE i \in 1..Len(Criteria) : Criteria[i] = c

\* d sorts before c: lower raw score, or the same score and declared earlier
SortsBefore(d, c, raw) ==
    \/ raw[d] < raw[c]
    \/ raw[d] = raw[c] /\ CriterionIndex(d) < CriterionIndex(c)

LowestThreeBelowSeven(raw) ==
    { c \in CriteriaSet :
        /\ Cardinality({d \in CriteriaSet : SortsBefore(d, c, raw)}) < 3
        /\ raw[c] < 7 * Scale }

CriterionOfTitle(title) == CHOOSE c \in CriteriaSet : TitleOf[c] = title

\* C7: improvement_priority is the three lowest raw scores (ties in
\* declaration order) restricted to those below 7.0: at most 3 entries, in
\* non-decreasing score order, empty when every score is >= 7.0, and never
\* holding a criterion while omitting a strictly lower-scoring one.
ImprovementPriorityIsLowestThree ==
    RatedWell =>
        LET raw == DetailedScores(analysis_result)
            p == rating_result.improvement_priority
            listed == { p[i] : i \in 1..Len(p) }
        IN  /\ Len(p) <= 3
            /\ listed = { TitleOf[c] : c \in LowestThreeBelowSeven(raw) }
            /\ Cardinality(listed) = Len(p)
            /\ \A i, j \in 1..Len(p) :
                   i < j => SortsBefore(CriterionOfTitle(p[i]),
                                        CriterionOfTitle(p[j]), raw)
            /\ (\A c \in CriteriaSet : raw[c] >= 7 * Scale) => p = << >>
            /\ \A c, d \in CriteriaSet :
                   (TitleOf[c] \in listed /\ raw[d] < raw[c])
                       => TitleOf[d] \in listed

\* a report where the filter dropped one of the three lowest criteria and
\* two of the listed ones tie
TwoPrioritiesWithTie ==
    /\ RatedWell
    /\ Len(rating_result.improvement_priority) = 2
    /\ LET raw == DetailedScores(analysis_result)
           p == rating_result.improvement_priority
       IN  raw[CriterionOfTitle(p[1])] = raw[CriterionOfTitle(p[2])]

Categories == << "Poor", "Below Average", "Average", "Good", "Excellent" >>
CategoryRank(cat) == CHOOSE i \in 1..Len(Categories) : Categories[i] = cat

\* C8: rating_category is decided by overall_score alone with thresholds
\* 8.5 / 7.0 / 5.5 / 3.0, exactly one category for every score in [0,10],
\* and a higher score never gets a worse category.
RatingCategoryThresholds ==
    RatedWell =>
        LET o == rating_result.overall_score
            cat == rating_result.rating_category
        IN  /\ cat \in { Categories[i] : i \in 1..Len(Categories) }
            /\ cat = "Excellent" <=> o >= 85
            /\ cat = "Good" <=> (70 <= o /\ o < 85)
            /\ cat = "Average" <=> (55 <= o /\ o < 70)
            /\ cat = "Below Average" <=> (30 <= o /\ o < 55)
            /\ cat = "Poor" <=> o < 30
            /\ \A a \in 0..100 :
                   /\ rating_category(a)
                          \in { Categories[i] : i \in 1..Len(Categories) }
                   /\ a >= o => CategoryRank(rating_category(a))
                                    >= CategoryRank(cat)
                   /\ a <= o => CategoryRank(rating_category(a))
                                    <= CategoryRank(cat)

\* a report sitting exactly on the Good threshold
RatedExactlyGood ==
    /\ RatedWell
    /\ rating_result.overall_score = 70
    /\ rating_result.rating_category = "Good"

NoEmptyLists(skills) == \A c \in DOMAIN skills : skills[c] >= 1

\* skills with category c added holding n skills
WithCategory(skills, c, n) ==
    [k \in DOMAIN skills \cup {c} |-> IF k = c THEN n ELSE skills[k]]

\* C9: for skills maps without empty lists, adding a category never lowers
\* score_skills_diversity, and adding a skill (to an existing category or
\* with a new category) never lowers score_skills_quantity.
SkillsCurvesMonotone ==
    /\ (fn = "skills_diversity" /\ NoEmptyLists(analysis_result.skills))
           => \A c \in SkillCategories \ DOMAIN analysis_result.skills :
              \A n \in 1..MaxSkillsPerCategory :
                  score_skills_diversity(
                      WithCategory(analysis_result.skills, c, n)) >= ret
    /\ (fn = "skills_quantity" /\ NoEmptyLists(analysis_result.skills))
           => /\ \A c \in DOMAIN analysis_result.skills :
                     score_skills_quantity(
                         [analysis_result.skills EXCEPT ![c] = @ + 1]) >= ret
              /\ \A c \in SkillCategories \ DOMAIN analysis_result.skills :
                 \A n \in 1..MaxSkillsPerCategory :
                     score_skills_quantity(
                         WithCategory(analysis_result.skills, c, n)) >= ret

\* score_skills_quantity was called on 4 skills, one short of min_skills
QuantityScoredBelowBreakpoint ==
    /\ fn = "skills_quantity"
    /\ NoEmptyLists(analysis_result.skills)
    /\ SumOver(analysis_result.skills, DOMAIN analysis_result.skills) = 4
    /\ ret = 4 * Scale

Indicator(b) == IF b THEN 1 ELSE 0

\* C10: score_contact_completeness is 3.5 per present field among
\* email/phone plus 1.5 per present field among linkedin/github, capped at
\* 10; email and phone alone give exactly 7.0; the values do not matter.
ContactScoreByPresentFields ==
    (fn = "contact_completeness" /\ ~HasError(analysis_result))
        => LET contact == analysis_result.contact_info
               present(f) == Indicator(f \in DOMAIN contact)
           IN  /\ ret * 10 =
                      Min(100, 35 * present("email") + 35 * present("phone")
                               + 15 * present("linkedin")
                               + 15 * present("github")) * Scale
               /\ DOMAIN contact = {"email", "phone"} => ret = 7 * Scale
               /\ \A other \in ContactMaps :
                      DOMAIN other = DOMAIN contact
                          => score_contact_completeness(other) = ret

\* email and phone only, one of them an empty string
EmailAndPhoneOnlyScored ==
    /\ fn = "contact_completeness"
    /\ DOMAIN analysis_result.contact_info = {"email", "phone"}
    /\ analysis_result.contact_info["phone"] = ""
    /\ ret = 7 * Scale

----------------------------------------------------------------------------
(* SuggestionsSystem.  A suggestion string is the record of what its       *)
(* template is filled with: the template (kind), the category, section or  *)
(* missing contact fields it names (about) and which of the random          *)
(* alternatives was drawn (pick); two suggestions are the same string iff   *)
(* the records are equal.  Every generator that draws at random is the set *)
(* of the lists it can return.                                             *)

MaxChoice == 2
MaxFormattingTips == 3
MaxVerbSamples == 1
MaxMetricSamples == 1

Suggestion(kind, about, pick) == [kind |-> kind, about |-> about, pick |-> pick]

\* all ways to continue a list of A with a list of B
Concat(A, B) == { a \o b : a \in A, b \in B }

\* random.choice over a list of n templates (the first MaxChoice of them)
Choices(n) == 1..Min(n, MaxChoice)

\* keys of self.skill_suggestions, four templates each
SuggestionCategories ==
    { "programming_languages", "web_technologies", "databases",
      "cloud_platforms", "soft_skills" }

\* iteration order of the skills dict: the order of the skills database
SkillsDatabaseOrder ==
    << "programming_languages", "web_technologies", "databases",
       "cloud_platforms", "soft_skills", "tools" >>

\* len(self.skill_suggestions.get(category, [default]))
SkillTemplates ==
    [category \in SkillCategories |->
        IF category \in SuggestionCategories THEN 4 ELSE 1]

\* keys of self.section_suggestions, four templates each
SuggestedSections ==
    { "summary", "experience", "education", "skills", "projects" }

\* iteration order of the sections dict: the order of resume_sections
SectionOrder ==
    << "contact", "summary", "experience", "education", "skills", "projects",
       "certifications", "achievements" >>

\* dict.items() order of a map whose keys were inserted in the given order
ItemsOrder(order, map) == SelectSeq(order, LAMBDA k : k \in DOMAIN map)

\* list(missing_categories)[:2]: a set has no fixed iteration order
FirstTwoOf(S) ==
    IF S = {} THEN { << >> }
    ELSE IF Cardinality(S) = 1 THEN { << c >> : c \in S }
    ELSE { pair \in S \X S : pair[1] # pair[2] }

RECURSIVE ChoiceForEach(_, _, _)
\* one templated suggestion per element of seq, each with its own draw
ChoiceForEach(seq, kind, templates) ==
    IF seq = << >> THEN { << >> }
    ELSE Concat({ << Suggestion(kind, << Head(seq) >>, i) >> :
                      i \in Choices(templates[Head(seq)]) },
                ChoiceForEach(Tail(seq), kind, templates))

generate_skill_suggestions(skills_analysis, detailed_scores) ==
    LET missing_categories == SuggestionCategories \ DOMAIN skills_analysis
        diversity ==
            IF Get(detailed_scores, "skills_diversity", 0) < 70
            THEN Concat({ << Suggestion("skills_diversity", << >>, 0) >> },
                        UNION { ChoiceForEach(cats, "missing_category",
                                              SkillTemplates) :
                                    cats \in FirstTwoOf(missing_categories) })
            ELSE { << >> }
        few == SelectSeq(ItemsOrder(SkillsDatabaseOrder, skills_analysis),
                         LAMBDA c : skills_analysis[c] < 3)
        quantity ==
            IF Get(detailed_scores, "skills_quantity", 0) < 70
            THEN Concat({ << Suggestion("skills_quantity", << >>, 0) >> },
                        ChoiceForEach(few, "few_skills", SkillTemplates))
            ELSE { << >> }
    IN  Concat(diversity, quantity)

\* len(self.section_suggestions[section])
SectionTemplates == [section \in SuggestedSections |-> 4]

RECURSIVE MissingEssential(_, _)
MissingEssential(seq, sections_analysis) ==
    IF seq = << >> THEN << >>
    ELSE (IF ~SectionPresent(sections_analysis, Head(seq))
          THEN << Suggestion("missing_section", << Head(seq) >>, 0) >>
          ELSE << >>)
         \o MissingEssential(Tail(seq), sections_analysis)

generate_section_suggestions(sections_analysis, detailed_scores) ==
    LET essential ==
            MissingEssential(<< "experience", "education", "skills" >>,
                             sections_analysis)
        important ==
            SelectSeq(<< "summary", "projects" >>,
                      LAMBDA t : ~SectionPresent(sections_analysis, t))
        existing ==
            SelectSeq(ItemsOrder(SectionOrder, sections_analysis),
                      LAMBDA t : sections_analysis[t] /\ t \in SuggestedSections)
        improve ==
            IF Get(detailed_scores, "sections_completeness", 0) < 80
            THEN ChoiceForEach(existing, "improve_section", SectionTemplates)
            ELSE { << >> }
    IN  Concat(Concat({ essential },
                      ChoiceForEach(important, "add_section", SectionTemplates)),
               improve)

\* one fixed message if the condition holds
When(cond, kind) == IF cond THEN << Suggestion(kind, << >>, 0) >> ELSE << >>

generate_content_suggestions(analysis, detailed_scores) ==
    LET readability == Get(analysis, "readability", EmptyMap)
        word_count == Get(readability, "word_count", 0)
        length ==
            IF Get(detailed_scores, "content_length", 0) < 70
            THEN IF word_count < 150 THEN When(TRUE, "content_too_brief")
                 ELSE When(word_count > 800, "content_too_long")
            ELSE << >>
        avg_sentence_length == Get(readability, "avg_sentence_length", 2000)
        complexity_ratio == Get(readability, "complexity_ratio", 30)
        reading ==
            IF Get(detailed_scores, "readability", 0) < 70
            THEN When(avg_sentence_length > 2500, "shorter_sentences")
                 \o When(complexity_ratio > 50, "simplify_words")
            ELSE << >>
        projects == Get(analysis, "projects", << >>)
        short_projects == SelectSeq(projects, LAMBDA words : words < 10)
        project ==
            IF Get(detailed_scores, "project_quality", 0) < 70
            THEN (IF Len(projects) = 0 THEN When(TRUE, "add_projects")
                  ELSE When(Len(projects) < 3, "add_more_projects"))
                 \o When(short_projects # << >>, "expand_project_descriptions")
            ELSE << >>
        contact_info == Get(analysis, "contact_info", EmptyMap)
        missing_contact ==
            SelectSeq(<< "email", "phone", "linkedin" >>,
                      LAMBDA f : f \notin DOMAIN contact_info)
        contact ==
            IF Get(detailed_scores, "contact_completeness", 0) < 80
               /\ missing_contact # << >>
            THEN << Suggestion("contact_info", missing_contact, 0) >>
            ELSE << >>
    IN  length \o reading \o project \o contact

\* len(self.formatting_suggestions)
NumFormattingTips == 8

\* random.choices(pool, k=3): three draws with replacement
ChoicesThree(n) == (1..n) \X (1..n) \X (1..n)

\* random.sample(pool, 3) of a pool of n items
SampleThree(n) ==
    { t \in (1..n) \X (1..n) \X (1..n) :
          t[1] # t[2] /\ t[1] # t[3] /\ t[2] # t[3] }

\* the sample is drawn among the first MaxFormattingTips tips of the pool
generate_formatting_suggestions(detailed_scores) ==
    { [i \in 1..3 |-> Suggestion("formatting", << >>, tips[i])] :
          tips \in SampleThree(Min(NumFormattingTips, MaxFormattingTips)) }

\* the two tips embed a random sample of verbs and of metric examples; the
\* sample drawn is identified by a number
generate_content_enhancement_tips ==
    { << Suggestion("action_verbs", << >>, v),
         Suggestion("quantify_achievements", << >>, m) >> :
          v \in 1..MaxVerbSamples, m \in 1..MaxMetricSamples }

\* lst[a:b] with 0-based, end-exclusive bounds
Slice(lst, a, b) == SubSeq(lst, a + 1, Min(b, Len(lst)))

SliceEach(lists, a, b) == { Slice(lst, a, b) : lst \in lists }

\* the if/elif chain on priority.lower(): substring tests on the title
GeneratorFor ==
    [ t \in { TitleOf[c] : c \in CriteriaSet } |->
        IF t \in {"Skills Diversity", "Skills Quantity"} THEN "skills"
        ELSE IF t = "Sections Completeness" THEN "section"
        ELSE IF t \in {"Content Length", "Readability"} THEN "content"
        ELSE "none" ]

RECURSIVE CriticalSuggestions(_, _, _)
\* the loop over improvement_priority
CriticalSuggestions(priorities, analysis, detailed_scores) ==
    IF priorities = << >> THEN { << >> }
    ELSE LET generator == GeneratorFor[Head(priorities)]
             first ==
                 IF generator = "skills"
                 THEN SliceEach(generate_skill_suggestions(
                                    Get(analysis, "skills", EmptyMap),
                                    detailed_scores), 0, 2)
                 ELSE IF generator = "section"
                 THEN SliceEach(generate_section_suggestions(
                                    Get(analysis, "sections", EmptyMap),
                                    detailed_scores), 0, 2)
                 ELSE IF generator = "content"
                 THEN { Slice(generate_content_suggestions(
                                  analysis, detailed_scores), 0, 2) }
                 ELSE { << >> }
         IN  Concat(first, CriticalSuggestions(Tail(priorities), analysis,
                                               detailed_scores))

\* list(set(lst[1:])): a deduplication that loses the head of the list
DedupTail(lst) == { lst[i] : i \in 2..Len(lst) }

\* list(set(filter(None, lst))): no suggestion is an empty string
Dedup(lst) == { lst[i] : i \in 1..Len(lst) }

generate_priority_suggestions(analysis, rating) ==
    LET detailed_scores == Get(rating, "detailed_scores", EmptyMap)
        improvement_priority == Get(rating, "improvement_priority", << >>)
        critical ==
            CriticalSuggestions(improvement_priority, analysis, detailed_scores)
        important ==
            Concat({ Slice(generate_content_suggestions(
                               analysis, detailed_scores), 2, 4) },
                   SliceEach(generate_section_suggestions(
                                 Get(analysis, "sections", EmptyMap),
                                 detailed_scores), 2, 4))
        enhancement ==
            Concat(SliceEach(generate_formatting_suggestions(detailed_scores),
                             0, 2),
                   SliceEach(generate_content_enhancement_tips, 0, 3))
    IN  { [ critical |-> Dedup(c), important |-> Dedup(i),
            enhancement |-> Dedup(e) ] :
              c \in critical, i \in important, e \in enhancement }

\* tier[:] of a list built from a set: the whole tier
WholeTier(tier) == { tier }

\* tier[:3] of a list built from a set: any 3 elements, or all if fewer
FirstThreeOf(tier) ==
    IF Cardinality(tier) <= 3 THEN { tier }
    ELSE { items \in SUBSET tier : Cardinality(items) = 3 }

PlanEntries(tier, priority, timeline, impact) ==
    IF tier = {} THEN { << >> }
    ELSE { << [ priority |-> priority, timeline |-> timeline,
                items |-> items, impact |-> impact ] >> :
               items \in FirstThreeOf(tier) }

generate_improvement_action_plan(suggestions) ==
    Concat(Concat(
        PlanEntries(suggestions.critical, "High Priority",
            "Complete within 1-2 days",
            "These changes will significantly improve your resume score"),
        PlanEntries(suggestions.important, "Medium Priority",
            "Complete within 1 week",
            "These improvements will make your resume more competitive")),
        PlanEntries(suggestions.enhancement, "Low Priority",
            "Complete when you have time",
            "These refinements will polish your resume presentation"))

generate_suggestions(analysis, rating) ==
    UNION { { [ suggestions_by_priority |-> priority_suggestions,
                action_plan |-> action_plan,
                total_suggestions |->
                    Cardinality(priority_suggestions.critical)
                    + Cardinality(priority_suggestions.important)
                    + Cardinality(priority_suggestions.enhancement) ] :
                  action_plan \in
                      generate_improvement_action_plan(priority_suggestions) } :
            priority_suggestions \in
                generate_priority_suggestions(analysis, rating) }

----------------------------------------------------------------------------
(* Suggestions: a bundle is drawn, rated, and suggestions are generated *)

\* bundles the suggestion engine is run on
IdealBundle ==
    Bundle(IdealSkills, AllContact, AllSections, IdealReadability,
           IdealProjects)

\* the ideal resume cut down to 100 words
BriefBundle ==
    Bundle(IdealSkills, AllContact, AllSections, Readability(100, 1400, 30),
           IdealProjects)

\* one skill in each of four categories, soft skills missing
FewSkillsBundle ==
    Bundle([c \in SuggestionCategories \ {"soft_skills"} |-> 1], AllContact,
           AllSections, IdealReadability, IdealProjects)

\* no summary, education or projects section
FewSectionsBundle ==
    Bundle(IdealSkills, AllContact,
           [s \in {"skills", "experience"} |-> TRUE], IdealReadability,
           IdealProjects)

\* the ideal resume with a single project
OneProjectBundle ==
    Bundle(IdealSkills, AllContact, AllSections, IdealReadability, << 20 >>)

\* the ideal resume with an e-mail address as its only contact field
EmailOnlyBundle ==
    Bundle(IdealSkills, [f \in {"email"} |-> "a@b.com"], AllSections,
           IdealReadability, IdealProjects)

\* the ideal resume cut to 100 words of long sentences and complex words
BriefRamblingBundle ==
    Bundle(IdealSkills, AllContact, AllSections, Readability(100, 4000, 60),
           IdealProjects)

SuggestBundles ==
    ErrorBundles
    \cup { IdealBundle, BriefBundle, FewSkillsBundle, FewSectionsBundle,
           OneProjectBundle, EmailOnlyBundle, BriefRamblingBundle }

Suggested == suggestions_result # NoResult

\* the generators generate_priority_suggestions calls
GeneratorsRun(rating) ==
    LET priorities == Get(rating, "improvement_priority", << >>)
    IN  ({ GeneratorFor[priorities[i]] : i \in 1..Len(priorities) }
            \ {"none"})
        \cup {"content", "section", "formatting", "content_enhancement"}

\* generate_suggestions that empties improvement_priority as it walks it
GenerateSuggestionsConsuming ==
    /\ rating_result # NoResult
    /\ suggestions_result = NoResult
    /\ suggestions_result'
           \in generate_suggestions(analysis_result, rating_result)
    /\ calls' = GeneratorsRun(rating_result)
    /\ rating_result' =
           IF "improvement_priority" \in DOMAIN rating_result
           THEN [rating_result EXCEPT !.improvement_priority = << >>]
           ELSE rating_result
    /\ UNCHANGED <<analyzerVars, repeatVars>>
    /\ UNCHANGED <<analysis_result, fn, ret, appVars>>

\* generate_suggestions(analysis_result, rating_result)
GenerateSuggestions ==
    /\ rating_result # NoResult
    /\ suggestions_result = NoResult
    /\ suggestions_result'
           \in generate_suggestions(analysis_result, rating_result)
    /\ calls' = GeneratorsRun(rating_result)
    /\ UNCHANGED <<analyzerVars, repeatVars>>
    /\ UNCHANGED <<analysis_result, fn, ret, rating_result, appVars>>

InitSuggest ==
    /\ analysis_result \in SuggestBundles
    /\ fn = "none"
    /\ ret = -1
    /\ calls = {}
    /\ rating_result = NoResult
    /\ suggestions_result = NoResult
    /\ AppNotStarted
    /\ AnalyzerNotCalled
    /\ NotRepeated

NextSuggest ==
    \/ RateResume
    \/ GenerateSuggestions

SpecSuggest == InitSuggest /\ [][NextSuggest]_vars

\* C5: given a bundle that carries an error (and the report scoring made of
\* it), generate_suggestions short-circuits: all three tiers and the action
\* plan are empty and the result carries the same error.
SuggestionsShortCircuitOnError ==
    (Suggested /\ HasError(analysis_result))
        => /\ suggestions_result.suggestions_by_priority.critical = {}
           /\ suggestions_result.suggestions_by_priority.important = {}
           /\ suggestions_result.suggestions_by_priority.enhancement = {}
           /\ suggestions_result.action_plan = << >>
           /\ "error" \in DOMAIN suggestions_result
           /\ suggestions_result.error = analysis_result.error

----------------------------------------------------------------------------
(* PDF parsing *)

\* An extracted text is kept as its length in characters, the number of
\* words it has and the resume it is the text of: "" is Text(0, 0, "none").
Text(chars, words, resume) ==
    [ chars |-> chars, words |-> words, resume |-> resume ]

EmptyText == Text(0, 0, "none")
WhiteSpaceText == Text(3, 0, "none")
FullText == Text(2900, 450, "full")
BriefText == Text(640, 100, "brief")

\* not text or not text.strip()
IsBlank(text) == text.words = 0

\* uploaded_file.name.lower(), kept as the extension of the name
Lower ==
    [ ext \in {"pdf", "PDF", "docx"} |->
        IF ext = "PDF" THEN "pdf" ELSE ext ]

\* 10MB in bytes
MaxFileSize == 10 * 1024 * 1024

\* An uploaded file: the extension of its name, its size in bytes, whether
\* PyPDF2 can open it, and the text each extraction library gets from it
\* (stripped by extract_text_pdfplumber and extract_text_pypdf2, so never
\* white space only; "" when the library fails or finds no text).
File(ext, size, readable, text_plumber, text_pypdf2) ==
    [ ext |-> ext, size |-> size, readable |-> readable,
      text_plumber |-> text_plumber, text_pypdf2 |-> text_pypdf2 ]

Uploads ==
    { File("docx", 52000, FALSE, EmptyText, EmptyText),
      File("pdf", MaxFileSize + 1, TRUE, FullText, FullText),
      File("pdf", 52000, FALSE, EmptyText, EmptyText),
      File("pdf", 52000, TRUE, EmptyText, EmptyText),
      File("PDF", MaxFileSize, TRUE, FullText, BriefText),
      File("pdf", 52000, TRUE, EmptyText, BriefText) }

\* validate_pdf without the check of the file size
validate_pdf_any_size(file) ==
    IF file = NoResult
    THEN [ valid |-> FALSE, error |-> "No file uploaded" ]
    ELSE IF Lower[file.ext] # "pdf"
    THEN [ valid |-> FALSE, error |-> "File must be a PDF" ]
    ELSE IF file.readable
    THEN [ valid |-> TRUE, error |-> "None", size |-> file.size ]
    ELSE [ valid |-> FALSE, error |-> "Invalid PDF file" ]

validate_pdf(file) ==
    IF file = NoResult
    THEN [ valid |-> FALSE, error |-> "No file uploaded" ]
    ELSE IF Lower[file.ext] # "pdf"
    THEN [ valid |-> FALSE, error |-> "File must be a PDF" ]
    ELSE IF file.size > MaxFileSize
    THEN [ valid |-> FALSE, error |-> "File size must be less than 10MB" ]
    ELSE IF file.readable
    THEN [ valid |-> TRUE, error |-> "None", size |-> file.size ]
    ELSE [ valid |-> FALSE, error |-> "Invalid PDF file" ]

extract_text(file) ==
    LET plumber == file.text_plumber.chars > file.text_pypdf2.chars
        best_text == IF plumber THEN file.text_plumber ELSE file.text_pypdf2
        method_used == IF plumber THEN "pdfplumber" ELSE "PyPDF2"
    IN  IF IsBlank(best_text)
        THEN [ text |-> EmptyText, success |-> FALSE, method |-> "none",
               word_count |-> 0, char_count |-> 0,
               error |-> "Could not extract text from PDF" ]
        ELSE [ text |-> best_text, success |-> TRUE, method |-> method_used,
               word_count |-> best_text.words,
               char_count |-> best_text.chars, error |-> "None" ]

process_uploaded_file(file) ==
    LET validation == validate_pdf(file)
        extraction_result == extract_text(file)
    IN  IF ~validation.valid
        THEN [ success |-> FALSE, error |-> validation.error,
               text |-> EmptyText, metadata |-> EmptyMap ]
        ELSE IF extraction_result.success
        THEN [ success |-> TRUE, error |-> "None",
               text |-> extraction_result.text,
               metadata |->
                   [ file_name |-> file.ext,
                     file_size |-> validation.size,
                     extraction_method |-> extraction_result.method,
                     word_count |-> extraction_result.word_count,
                     char_count |-> extraction_result.char_count ] ]
        ELSE [ success |-> FALSE, error |-> extraction_result.error,
               text |-> EmptyText,
               metadata |-> [ file_name |-> file.ext ] ]

parse_pdf(file) == process_uploaded_file(file)

\* the methods of PDFParser that process_uploaded_file invokes
ParserCalls(file) ==
    IF validate_pdf(file).valid
    THEN {"validate_pdf", "extract_text"}
    ELSE {"validate_pdf"}

----------------------------------------------------------------------------
(* Text analysis and summary generation, as far as the pipeline needs them *)

\* the feature bundle the extractors produce from each resume text
\* what the extractors make of a page of white space
BlankPageBundle ==
    Bundle(EmptyMap, EmptyMap, [s \in SectionNames |-> FALSE],
           ZeroReadability, << >>)

Extracted ==
    [ resume \in {"full", "brief", "none"} |->
        IF resume = "full" THEN IdealBundle
        ELSE IF resume = "brief" THEN BriefBundle
        ELSE BlankPageBundle ]

\* analyze_resume that tests `not text` only
analyze_resume_unstripped(text) ==
    IF text.chars = 0 THEN ErrorBundle ELSE Extracted[text.resume]

analyze_resume(text) ==
    IF IsBlank(text) THEN ErrorBundle ELSE Extracted[text.resume]

analyze_resume_text(text) == analyze_resume(text)

\* len(self.templates[template_category]), len(self.achievement_templates)
NumSummaryTemplates == 3
NumAchievementTemplates == 8

\* The summary is kept as the template and the achievement line that
\* random.choice picked.  A bundle has no 'text' entry, so no education
\* level is detected and the template category is always "experienced".
generate_summary(analysis) ==
    IF HasError(analysis)
    THEN { [ summary |-> "Unable to generate summary due to analysis error.",
             error |-> analysis.error, template_used |-> "None" ] }
    ELSE { [ summary |-> [ template |-> template,
                           achievement |-> achievement ],
             template_used |-> "experienced" ] :
           template \in Choices(NumSummaryTemplates),
           achievement \in Choices(NumAchievementTemplates) }

generate_professional_summary(analysis) == generate_summary(analysis)

----------------------------------------------------------------------------
(* The application: one script run per upload, results displayed at the end *)

Apps == {"app", "main_app"}

\* the order in which main() invokes the pipeline
PipelineOrder ==
    << "parse_pdf", "analyze_resume_text", "rate_resume",
       "generate_suggestions", "generate_professional_summary", "display" >>

Message(kind, text) == [ kind |-> kind, text |-> text ]

generate_report_download(analysis_data) ==
    [ overall_score |->
          Get(Get(analysis_data, "rating", EmptyMap), "overall_score", 0),
      rating_category |->
          Get(Get(analysis_data, "rating", EmptyMap), "rating_category",
              "Unknown"),
      skills_found |->
          Get(Get(analysis_data, "analysis", EmptyMap), "skills", EmptyMap),
      suggestions |-> Get(analysis_data, "suggestions", EmptyMap),
      professional_summary |->
          Get(Get(analysis_data, "summary", EmptyMap), "summary", ""),
      detailed_scores |->
          Get(Get(analysis_data, "rating", EmptyMap), "detailed_scores",
              EmptyMap),
      metadata |-> Get(analysis_data, "metadata", EmptyMap) ]

\* display_suggestions_section: one box per entry of the action plan
RECURSIVE PlanBoxes(_)
PlanBoxes(action_plan) ==
    IF action_plan = << >> THEN << >>
    ELSE LET priority == Head(action_plan).priority
         IN  << Message(IF priority = "High Priority" THEN "error"
                        ELSE IF priority = "Medium Priority" THEN "warning"
                        ELSE "info",
                        priority) >>
             \o PlanBoxes(Tail(action_plan))

\* main_app: one warning per critical suggestion, three at most
CriticalBoxes(suggestions) ==
    [ i \in 1..Min(3, Cardinality(suggestions.suggestions_by_priority.critical))
        |-> Message("warning", "Top Priority Improvement") ]

\* the boxes main() shows below the results
ResultBoxes ==
    IF app = "app"
    THEN << Message("success", "Resume analysis completed!") >>
         \o PlanBoxes(suggestions_result.action_plan)
    ELSE << Message("success", "Analysis complete!"),
            Message("info", rating_result.rating_category) >>
         \o CriticalBoxes(suggestions_result)

\* A script run starts: the locals of main() are fresh, session_state is
\* what the last run left.  main_app reports the file it was given.
AppRerun ==
    /\ pc \in {"idle", "done"}
    /\ \E file \in Uploads \cup {NoResult} :
        /\ uploaded_file' = file
        /\ pc' = IF file = NoResult THEN "instructions" ELSE "parse"
        /\ messages' = IF app = "main_app" /\ file # NoResult
                       THEN << Message("success", "File uploaded") >>
                       ELSE << >>
    /\ parsing_result' = NoResult
    /\ analysis_result' = NoResult
    /\ rating_result' = NoResult
    /\ suggestions_result' = NoResult
    /\ summary_result' = NoResult
    /\ stages' = << >>
    /\ calls' = {}
    /\ displayed' = NoResult
    /\ download' = NoResult
    /\ UNCHANGED <<analyzerVars, repeatVars>>
    /\ UNCHANGED <<app, fn, ret, session_state>>

\* no file was chosen: main() shows the instructions
AppShowInstructions ==
    /\ pc = "instructions"
    /\ pc' = "done"
    /\ messages' = IF app = "main_app"
                   THEN << Message("info", "Upload your resume PDF") >>
                   ELSE << >>
    /\ UNCHANGED <<analyzerVars, repeatVars>>
    /\ UNCHANGED <<analysis_result, fn, ret, calls, rating_result,
                   suggestions_result, app, uploaded_file, parsing_result,
                   summary_result, session_state, stages, displayed,
                   download>>

\* a parse step of main() that reports the failure and goes on
AppParsePdfGoesOn ==
    /\ pc = "parse"
    /\ parsing_result' = parse_pdf(uploaded_file)
    /\ calls' = ParserCalls(uploaded_file)
    /\ stages' = Append(stages, "parse_pdf")
    /\ IF ~parsing_result'.success
       THEN /\ messages' =
                   Append(messages,
                          Message("error", parsing_result'.error))
            /\ pc' = "analyze"
       ELSE /\ pc' = "analyze"
            /\ UNCHANGED messages
    /\ UNCHANGED <<analyzerVars, repeatVars>>
    /\ UNCHANGED <<analysis_result, fn, ret, rating_result,
                   suggestions_result, app, uploaded_file, summary_result,
                   session_state, displayed, download>>

\* parsing_result = parse_pdf(uploaded_file); on failure st.error and return
\* (main_app adds a tip below the error)
AppParsePdf ==
    /\ pc = "parse"
    /\ parsing_result' = parse_pdf(uploaded_file)
    /\ calls' = ParserCalls(uploaded_file)
    /\ stages' = Append(stages, "parse_pdf")
    /\ IF ~parsing_result'.success
       THEN /\ messages' =
                   Append(messages,
                          Message("error", parsing_result'.error))
                   \o (IF app = "main_app"
                       THEN << Message("info", "Tip") >> ELSE << >>)
            /\ pc' = "done"
       ELSE /\ pc' = "analyze"
            /\ UNCHANGED messages
    /\ UNCHANGED <<analyzerVars, repeatVars>>
    /\ UNCHANGED <<analysis_result, fn, ret, rating_result,
                   suggestions_result, app, uploaded_file, summary_result,
                   session_state, displayed, download>>

\* analysis_result = analyze_resume_text(text); on 'error' st.error and return
AppAnalyzeText ==
    /\ pc = "analyze"
    /\ analysis_result' = analyze_resume_text(parsing_result.text)
    /\ calls' = {"analyze_resume"}
    /\ stages' = Append(stages, "analyze_resume_text")
    /\ IF HasError(analysis_result')
       THEN /\ messages' =
                   Append(messages,
                          Message("error", analysis_result'.error))
            /\ pc' = "done"
       ELSE /\ pc' = "rate"
            /\ UNCHANGED messages
    /\ UNCHANGED <<analyzerVars, repeatVars>>
    /\ UNCHANGED <<fn, ret, rating_result, suggestions_result, app,
                   uploaded_file, parsing_result, summary_result,
                   session_state, displayed, download>>

\* rating_result = rate_resume(analysis_result)
AppRateResume ==
    /\ pc = "rate"
    /\ rating_result' = calculate_overall_score(analysis_result)
    /\ calls' = ScorersRun(analysis_result)
    /\ stages' = Append(stages, "rate_resume")
    /\ pc' = "suggest"
    /\ UNCHANGED <<analyzerVars, repeatVars>>
    /\ UNCHANGED <<analysis_result, fn, ret, suggestions_result, app,
                   uploaded_file, parsing_result, summary_result,
                   session_state, messages, displayed, download>>

\* suggestions_result = generate_suggestions(analysis_result, rating_result)
AppGenerateSuggestions ==
    /\ pc = "suggest"
    /\ suggestions_result'
           \in generate_suggestions(analysis_result, rating_result)
    /\ calls' = GeneratorsRun(rating_result)
    /\ stages' = Append(stages, "generate_suggestions")
    /\ pc' = "summarize"
    /\ UNCHANGED <<analyzerVars, repeatVars>>
    /\ UNCHANGED <<analysis_result, fn, ret, rating_result, app,
                   uploaded_file, parsing_result, summary_result,
                   session_state, messages, displayed, download>>

\* a summary step that stores the results only if the session holds none yet
AppGenerateSummaryKeepsFirst ==
    /\ pc = "summarize"
    /\ summary_result' \in generate_professional_summary(analysis_result)
    /\ calls' = {"generate_summary"}
    /\ stages' = Append(stages, "generate_professional_summary")
    /\ session_state' =
           IF app = "app" /\ "analysis_data" \notin DOMAIN session_state
           THEN [ key \in {"analysis_data"} |->
                    [ analysis |-> analysis_result,
                      rating |-> rating_result,
                      suggestions |-> suggestions_result,
                      summary |-> summary_result',
                      metadata |-> parsing_result.metadata ] ]
           ELSE session_state
    /\ pc' = "display"
    /\ UNCHANGED <<analyzerVars, repeatVars>>
    /\ UNCHANGED <<analysis_result, fn, ret, rating_result,
                   suggestions_result, app, uploaded_file, parsing_result,
                   messages, displayed, download>>

\* summary_result = generate_professional_summary(analysis_result); app.py
\* then keeps the five results of the run in st.session_state.analysis_data
AppGenerateSummary ==
    /\ pc = "summarize"
    /\ summary_result' \in generate_professional_summary(analysis_result)
    /\ calls' = {"generate_summary"}
    /\ stages' = Append(stages, "generate_professional_summary")
    /\ session_state' =
           IF app = "app"
           THEN [ key \in {"analysis_data"} |->
                    [ analysis |-> analysis_result,
                      rating |-> rating_result,
                      suggestions |-> suggestions_result,
                      summary |-> summary_result',
                      metadata |-> parsing_result.metadata ] ]
           ELSE session_state
    /\ pc' = "display"
    /\ UNCHANGED <<analyzerVars, repeatVars>>
    /\ UNCHANGED <<analysis_result, fn, ret, rating_result,
                   suggestions_result, app, uploaded_file, parsing_result,
                   messages, displayed, download>>

\* the rest of main(): the results are rendered, and app.py offers the
\* report built from st.session_state.analysis_data, if there is one
AppDisplayResults ==
    /\ pc = "display"
    /\ stages' = Append(stages, "display")
    /\ messages' = messages \o ResultBoxes
    /\ displayed' = [ rating |-> rating_result,
                      suggestions |-> suggestions_result,
                      summary |-> summary_result ]
    /\ download' =
           IF app = "app" /\ "analysis_data" \in DOMAIN session_state
           THEN generate_report_download(session_state.analysis_data)
           ELSE NoResult
    /\ pc' = "done"
    /\ UNCHANGED <<analyzerVars, repeatVars>>
    /\ UNCHANGED <<analysis_result, fn, ret, calls, rating_result,
                   suggestions_result, app, uploaded_file, parsing_result,
                   summary_result, session_state>>

Init ==
    /\ app \in Apps
    /\ pc = "idle"
    /\ analysis_result = NoResult
    /\ fn = "none"
    /\ ret = -1
    /\ calls = {}
    /\ rating_result = NoResult
    /\ suggestions_result = NoResult
    /\ uploaded_file = NoResult
    /\ parsing_result = NoResult
    /\ summary_result = NoResult
    /\ session_state = EmptyMap
    /\ stages = << >>
    /\ messages = << >>
    /\ displayed = NoResult
    /\ download = NoResult
    /\ AnalyzerNotCalled
    /\ NotRepeated

Next ==
    \/ AppRerun
    \/ AppShowInstructions
    \/ AppParsePdf
    \/ AppAnalyzeText
    \/ AppRateResume
    \/ AppGenerateSuggestions
    \/ AppGenerateSummary
    \/ AppDisplayResults

Spec == Init /\ [][Next]_vars

\* a sequence is an initial part of another
IsPrefix(s, t) == Len(s) <= Len(t) /\ \A i \in 1..Len(s) : s[i] = t[i]

ParseFailed == "success" \in DOMAIN parsing_result /\ ~parsing_result.success
AnalysisFailed == HasError(analysis_result)
RunFailed == ParseFailed \/ AnalysisFailed

ErrorBoxes == { i \in 1..Len(messages) : messages[i].kind = "error" }

\* the state of a run that failed: one error box, nothing after the failed
\* stage, no result computed, rendered or offered for download
FailedRunIsBare ==
    RunFailed
        => /\ pc = "done"
           /\ Cardinality(ErrorBoxes) = 1
           /\ stages = IF ParseFailed THEN << "parse_pdf" >>
                       ELSE << "parse_pdf", "analyze_resume_text" >>
           /\ rating_result = NoResult
           /\ suggestions_result = NoResult
           /\ summary_result = NoResult
           /\ displayed = NoResult
           /\ download = NoResult

\* a step that leaves a failed run, or that a failed run takes, stores nothing
FailedRunStoresNothing == RunFailed' => session_state' = session_state

\* C6: in one run the stages are invoked in the pipeline's order, and a
\* failure is terminal: after parse_pdf returned success = false, or the
\* analysis carried 'error', exactly one error message is shown, no later
\* stage is invoked, and no rating, suggestions or summary is displayed or
\* stored in that run.
FailureIsTerminal ==
    /\ [](IsPrefix(stages, PipelineOrder) /\ FailedRunIsBare)
    /\ [][FailedRunStoresNothing]_vars

\* a run of app.py failed at parsing while the session still holds the
\* results an earlier upload stored
ParseFailedAfterStoredRun ==
    /\ app = "app"
    /\ pc = "done"
    /\ ParseFailed
    /\ Len(messages) = 1
    /\ "analysis_data" \in DOMAIN session_state

----------------------------------------------------------------------------
(* Properties of the suggestion tiers and of the action plan *)

Tiers == suggestions_result.suggestions_by_priority
PrioritiesOf(rating) == Get(rating, "improvement_priority", << >>)

\* C11: the 'important' tier generate_priority_suggestions returns is never
\* empty, not even for a resume on which every criterion scores well.
ImportantTierNonEmpty ==
    Suggested => Tiers.important # {}

\* C12: every criterion in improvement_priority is dispatched to the skills,
\* the section or the content generator, and at most two messages per
\* flagged criterion end up in the critical tier.
EveryPriorityDispatched ==
    Suggested
        => LET priorities == PrioritiesOf(rating_result)
           IN  /\ \A i \in 1..Len(priorities) :
                      GeneratorFor[priorities[i]]
                          \in {"skills", "section", "content"}
               /\ Cardinality(Tiers.critical) <= 2 * Len(priorities)

\* the entry generate_improvement_action_plan makes for each tier
PlanOrder ==
    << [ tier |-> "critical", priority |-> "High Priority",
         timeline |-> "Complete within 1-2 days",
         impact |->
             "These changes will significantly improve your resume score" ],
       [ tier |-> "important", priority |-> "Medium Priority",
         timeline |-> "Complete within 1 week",
         impact |->
             "These improvements will make your resume more competitive" ],
       [ tier |-> "enhancement", priority |-> "Low Priority",
         timeline |-> "Complete when you have time",
         impact |->
             "These refinements will polish your resume presentation" ] >>

\* C13: the action plan has one entry for each non-empty tier and none for
\* an empty one, in the order critical, important, enhancement, so three at
\* most; an entry has at most 3 items, all taken from its own tier, and its
\* tier's fixed priority label, timeline and impact.
ActionPlanFollowsTiers ==
    Suggested
        => LET plan == suggestions_result.action_plan
               expected ==
                   SelectSeq(PlanOrder, LAMBDA e : Tiers[e.tier] # {})
           IN  /\ Len(plan) <= 3
               /\ Len(plan) = Len(expected)
               /\ \A i \in 1..Len(plan) :
                      /\ plan[i].priority = expected[i].priority
                      /\ plan[i].timeline = expected[i].timeline
                      /\ plan[i].impact = expected[i].impact
                      /\ plan[i].items \subseteq Tiers[expected[i].tier]
                      /\ Cardinality(plan[i].items) <= 3
                      /\ plan[i].items # {}

\* all three tiers are filled and one of them has more than three items
ThreeEntryPlanWithCutTier ==
    /\ Suggested
    /\ Len(suggestions_result.action_plan) = 3
    /\ Cardinality(Tiers.enhancement) > 3

----------------------------------------------------------------------------
(* Properties of the score breakdown *)

\* C16: score_breakdown has one entry per criterion, seven in all; an
\* entry's contribution is its score times its weight rounded to one
\* decimal; the entries are in descending order of contribution, and
\* entries of equal contribution are in the order the criteria are declared.
ScoreBreakdownSortedByContribution ==
    RatedWell =>
        LET raw == DetailedScores(analysis_result)
            b == rating_result.score_breakdown
            criterion(i) == CriterionOfTitle(b[i].criterion)
        IN  /\ Len(b) = 7
            /\ { b[i].criterion : i \in 1..Len(b) }
                   = { TitleOf[c] : c \in CriteriaSet }
            /\ \A i \in 1..Len(b) :
                   /\ b[i].score = raw[criterion(i)]
                   /\ b[i].weight = weights[criterion(i)]
                   \* contribution (tenths) is a nearest tenth of score * weight
                   /\ LET exact == b[i].score * b[i].weight * 10
                          shown == b[i].contribution * Scale * 100
                      IN  /\ 2 * (shown - exact) <= Scale * 100
                          /\ 2 * (exact - shown) <= Scale * 100
            /\ \A i, j \in 1..Len(b) :
                   i < j =>
                       \/ b[i].contribution > b[j].contribution
                       \/ /\ b[i].contribution = b[j].contribution
                          /\ CriterionIndex(criterion(i))
                                 < CriterionIndex(criterion(j))

\* a breakdown in which two criteria tie and two others do not
BreakdownWithTie ==
    /\ RatedWell
    /\ LET b == rating_result.score_breakdown
       IN  /\ \E i \in 1..(Len(b) - 1) :
                  b[i].contribution = b[i + 1].contribution
           /\ \E i \in 1..(Len(b) - 1) :
                  b[i].contribution > b[i + 1].contribution

----------------------------------------------------------------------------
(* Frame: what scoring and suggestion generation leave alone *)

\* C15: rate_resume leaves the bundle it is given as it was, and
\* generate_suggestions leaves both the bundle and the score report
\* (detailed_scores, improvement_priority, score_breakdown) as they were.
InputsLeftUnchanged ==
    [][ /\ (~Rated /\ Rated') => analysis_result' = analysis_result
        /\ (~Suggested /\ Suggested')
               => /\ analysis_result' = analysis_result
                  /\ rating_result' = rating_result ]_vars

\* suggestions were made from a report that flags criteria
SuggestedFromFlaggedReport ==
    /\ Suggested
    /\ ~HasError(analysis_result)
    /\ PrioritiesOf(rating_result) # << >>
    /\ Len(rating_result.score_breakdown) = 7

----------------------------------------------------------------------------
(* Deduplication of the tiers *)

TierNames == {"critical", "important", "enhancement"}

RECURSIVE Enumerations(_)
\* the lists list(S) can be: every order of the elements of a set
Enumerations(S) ==
    IF S = {} THEN { << >> }
    ELSE UNION { { << x >> \o rest : rest \in Enumerations(S \ {x}) } :
                 x \in S }

----------------------------------------------------------------------------
(* TextAnalyzer: analyze_resume and compare_with_job *)

\* A job title or a keyword is kept as the sequence of its characters, so
\* that lower() and the substring test `in` are computed, not assumed.
UpperCase ==
    [ c \in { "S", "J", "A", "D", "G", "L", "Q", "W", "C", "T" } |->
        CASE c = "S" -> "s"
          [] c = "J" -> "j"
          [] c = "A" -> "a"
          [] c = "D" -> "d"
          [] c = "G" -> "g"
          [] c = "L" -> "l"
          [] c = "Q" -> "q"
          [] c = "W" -> "w"
          [] c = "C" -> "c"
          [] c = "T" -> "t" ]

\* str.lower()
lower(s) ==
    [ i \in 1..Len(s) |->
        IF s[i] \in DOMAIN UpperCase THEN UpperCase[s[i]] ELSE s[i] ]

\* a in b, for strings
IsSubstring(a, b) ==
    \E i \in 0..(Len(b) - Len(a)) : SubSeq(b, i + 1, i + Len(a)) = a

RECURSIVE Join(_, _)
\* sep.join(items)
Join(sep, items) ==
    IF items = << >> THEN << >>
    ELSE IF Len(items) = 1 THEN items[1]
    ELSE items[1] \o sep \o Join(sep, Tail(items))

\* the job-keyword dictionary: lower-case titles, keywords as written
job_keywords ==
    [ title \in { << "q", "a" >>, << "d", "e", "v" >>, << "i", "n", "t", "e", "r", "n" >> } |->
        IF title = << "q", "a" >>
        THEN << << "S", "Q", "L" >>, << "J", "a", "v", "a" >>, << "G", "i", "t" >> >>
        ELSE IF title = << "d", "e", "v" >>
        THEN << << "J", "a", "v", "a" >>, << "S", "Q", "L" >>, << "A", "W", "S" >>,
                << "D", "o", "c", "k", "e", "r" >>, << "G", "i", "t" >>, << "A", "g", "i", "l", "e" >>,
                << "L", "i", "n", "u", "x" >> >>
        ELSE << >> ]

\* the titles compare_with_job is asked about
JobTitles ==
    { << "q", "a" >>,
      << "Q", "A" >>,
      << "Q", "a" >>,
      << "d", "e", "v" >>,
      << "D", "e", "v" >>,
      << "i", "n", "t", "e", "r", "n" >>,
      << "c", "t", "o" >>,
      << "C", "T", "O" >>,
      << >> }

\* keywords as extract_keywords returns them: lower-case words of three
\* letters or more, each once
ResumeKeywords ==
    { << "m", "y", "s", "q", "l" >>,
      << "j", "a", "v", "a", "s", "c", "r", "i", "p", "t" >>,
      << "g", "i", "t" >>,
      << "a", "w", "s" >> }

KeywordLists ==
    { << >> }
    \cup { << k >> : k \in ResumeKeywords }
    \cup { pair \in ResumeKeywords \X ResumeKeywords : pair[1] # pair[2] }

\* the percentage cut off after two decimals
PercentTruncated(num, den) == (num * 10000) \div den

\* round(fraction * 100, 2) of num / den, in hundredths
Percent(num, den) == RoundHalfEven(num * 10000, den)

\* one recommendation per keyword
Recommendations(keywords) ==
    [ i \in 1..Len(keywords) |-> [ add |-> keywords[i] ] ]

compare_with_job(resume_analysis, title) ==
    IF lower(title) \notin DOMAIN job_keywords
    THEN [ error |-> [ not_found |-> title ],
           missing_keywords |-> << >>,
           match_score |-> 0 ]
    ELSE LET required_keywords == job_keywords[lower(title)]
             resume_words ==
                 Join(<< " " >>, Get(resume_analysis, "keywords", << >>))
             Matched(keyword) ==
                 IsSubstring(lower(keyword), lower(resume_words))
             matched_keywords == SelectSeq(required_keywords, Matched)
             missing_keywords ==
                 SelectSeq(required_keywords, LAMBDA k : ~Matched(k))
         IN  [ required_keywords |-> required_keywords,
               matched_keywords |-> matched_keywords,
               missing_keywords |-> missing_keywords,
               match_score |->
                   IF required_keywords # << >>
                   THEN Percent(Len(matched_keywords), Len(required_keywords))
                   ELSE 0,
               recommendations |->
                   Recommendations(Slice(missing_keywords, 0, 5)) ]

\* the extractors analyze_resume runs on a text
ExtractorsRun(text) ==
    IF IsBlank(text) THEN {}
    ELSE { "extract_skills", "extract_keywords", "detect_projects",
           "analyze_contact_info", "detect_sections",
           "calculate_readability" }

\* the texts analyze_resume is given
ResumeTexts == { EmptyText, WhiteSpaceText, FullText, BriefText }

InitAnalyzer ==
    /\ resume_text \in ResumeTexts
    /\ job_title \in JobTitles
    /\ analysis_result \in { [ keywords |-> k ] : k \in KeywordLists }
    /\ comparison_result = NoResult
    /\ fn = "none"
    /\ ret = -1
    /\ calls = {}
    /\ rating_result = NoResult
    /\ suggestions_result = NoResult
    /\ AppNotStarted
    /\ NotRepeated

\* analysis_result = analyze_resume_text(resume_text)
CallAnalyzeResume ==
    /\ fn = "none"
    /\ comparison_result = NoResult
    /\ fn' = "analyze_resume"
    /\ analysis_result' = analyze_resume_text(resume_text)
    /\ calls' = ExtractorsRun(resume_text)
    /\ UNCHANGED <<ret, rating_result, suggestions_result, appVars,
                   analyzerVars, repeatVars>>

\* comparison_result = compare_with_job(analysis_result, job_title), for an
\* analysis given by its keywords
CallCompareWithJob ==
    /\ fn = "none"
    /\ comparison_result = NoResult
    /\ comparison_result' = compare_with_job(analysis_result, job_title)
    /\ UNCHANGED <<analysis_result, fn, ret, calls, rating_result,
                   suggestions_result, appVars, resume_text, job_title,
                   repeatVars>>

NextAnalyzer ==
    \/ CallAnalyzeResume
    \/ CallCompareWithJob

SpecAnalyzer == InitAnalyzer /\ [][NextAnalyzer]_vars

Compared == comparison_result # NoResult
TitleKnown == lower(job_title) \in DOMAIN job_keywords

\* a field of the comparison that is there and is an empty list
EmptyList(name) ==
    /\ name \in DOMAIN comparison_result
    /\ comparison_result[name] = << >>

\* C18: for a title whose lower-case form is not in the dictionary,
\* compare_with_job returns an error object with match_score 0 and with
\* empty required, matched and missing keyword lists.
UnknownTitleGivesEmptyLists ==
    (Compared /\ ~TitleKnown)
        => /\ "error" \in DOMAIN comparison_result
           /\ comparison_result.match_score = 0
           /\ EmptyList("required_keywords")
           /\ EmptyList("matched_keywords")
           /\ EmptyList("missing_keywords")

\* s is t with some elements left out
RECURSIVE IsSubsequence(_, _)
IsSubsequence(s, t) ==
    IF s = << >> THEN TRUE
    ELSE IF t = << >> THEN FALSE
    ELSE IF Head(s) = Head(t) THEN IsSubsequence(Tail(s), Tail(t))
    ELSE IsSubsequence(s, Tail(t))

Range(s) == { s[i] : i \in 1..Len(s) }

\* matched and missing split required, and there is one recommendation for
\* each of the first five missing keywords
ComparisonSplitsRequired ==
    LET r == comparison_result
    IN  /\ r.required_keywords = job_keywords[lower(job_title)]
        /\ IsSubsequence(r.matched_keywords, r.required_keywords)
        /\ IsSubsequence(r.missing_keywords, r.required_keywords)
        /\ Range(r.matched_keywords) \cap Range(r.missing_keywords) = {}
        /\ Range(r.matched_keywords) \cup Range(r.missing_keywords)
               = Range(r.required_keywords)
        /\ Len(r.matched_keywords) + Len(r.missing_keywords)
               = Len(r.required_keywords)
        /\ r.match_score >= 0
        /\ r.match_score <= 10000
        /\ r.required_keywords = << >> => r.match_score = 0
        /\ Len(r.recommendations) <= 5
        /\ Len(r.recommendations) = Min(5, Len(r.missing_keywords))
        /\ \A i \in 1..Len(r.recommendations) :
               r.recommendations[i].add = r.missing_keywords[i]

\* C19 as stated: for a title in the dictionary the matched and missing
\* keywords partition the required ones in dictionary order, match_score is
\* 100 * |matched| / |required| within [0,100] (0 for no required keyword),
\* and there are at most 5 recommendations, one per missing keyword.
MatchScoreIsExactRatio ==
    (Compared /\ TitleKnown)
        => /\ ComparisonSplitsRequired
           /\ LET r == comparison_result
              IN  r.match_score * Len(r.required_keywords)
                      = 10000 * Len(r.matched_keywords)

\* C19, amended: as above, with match_score the ratio rounded to two
\* decimals: it is within 0.005 of 100 * |matched| / |required|.
MatchScoreIsRoundedRatio ==
    (Compared /\ TitleKnown)
        => /\ ComparisonSplitsRequired
           /\ LET r == comparison_result
                  n == Len(r.required_keywords)
                  exact == 10000 * Len(r.matched_keywords)
              IN  /\ 2 * (r.match_score * n - exact) <= n
                  /\ 2 * (exact - r.match_score * n) <= n

\* a comparison with matched and missing keywords, more than five missing,
\* and a ratio that does not end after two decimals
SixMissingOfSeven ==
    /\ Compared
    /\ TitleKnown
    /\ Len(comparison_result.matched_keywords) = 1
    /\ Len(comparison_result.missing_keywords) = 6
    /\ comparison_result.match_score = 1429

\* C20: analyze_resume on empty or white-space-only text returns the
\* empty-input error with every feature empty and runs no extractor; on any
\* other text it returns a bundle without an 'error' field.
BlankTextIsRejected ==
    fn = "analyze_resume"
        => IF resume_text.words = 0
           THEN /\ HasError(analysis_result)
                /\ analysis_result.error = "No text provided for analysis"
                /\ analysis_result.skills = EmptyMap
                /\ analysis_result.keywords = << >>
                /\ analysis_result.projects = << >>
                /\ analysis_result.contact_info = EmptyMap
                /\ analysis_result.sections = EmptyMap
                /\ analysis_result.readability = EmptyMap
                /\ calls = {}
           ELSE /\ ~HasError(analysis_result)
                /\ calls # {}

\* white space only was analysed
WhiteSpaceAnalysed ==
    /\ fn = "analyze_resume"
    /\ resume_text.chars > 0
    /\ resume_text.words = 0
    /\ HasError(analysis_result)

----------------------------------------------------------------------------
(* Repeated runs.  random.seed(seed) is called before each run; a run is    *)
(* rate_resume followed by generate_suggestions on the same bundle.  What a *)
(* run draws is a function of the seed and of the number of values drawn so *)
(* far.  The iteration order of a set of strings is fixed by the string     *)
(* hashes of the interpreter process, which are salted anew at start-up.    *)

MaxSeed == 2
MaxRuns == 2

Seeds == 0..MaxSeed

\* iteration orders of the category names that a process can have
HashOrders ==
    { << "programming_languages", "web_technologies", "databases",
         "cloud_platforms", "soft_skills" >>,
      << "soft_skills", "cloud_platforms", "databases", "web_technologies",
         "programming_languages" >>,
      << "databases", "soft_skills", "programming_languages",
         "cloud_platforms", "web_technologies" >> }

\* the generator after random.seed(s)
Seeded(s) == [ seed |-> s, drawn |-> 0 ]

\* the generator after one more draw
Advance(rng) == [ rng EXCEPT !.drawn = @ + 1 ]

\* the next draw from 1..n: a fixed function of the seed and of the number
\* of draws made since seeding
Draw(rng, n) ==
    (((rng.seed + 1) * (rng.drawn + 1) + rng.drawn * rng.drawn) % n) + 1

RECURSIVE SeededChoiceForEach(_, _, _, _)
\* one random.choice per element of seq, among the first MaxChoice templates
SeededChoiceForEach(seq, kind, templates, rng) ==
    IF seq = << >> THEN [ list |-> << >>, rng |-> rng ]
    ELSE LET pick == Draw(rng, Min(templates[Head(seq)], MaxChoice))
             rest == SeededChoiceForEach(Tail(seq), kind, templates,
                                         Advance(rng))
         IN  [ list |-> << Suggestion(kind, << Head(seq) >>, pick) >>
                            \o rest.list,
               rng |-> rest.rng ]

\* list(S) of a set of category names in a process with the given order
ListOf(S, order) == SelectSeq(order, LAMBDA c : c \in S)

generate_skill_suggestions_seeded(skills_analysis, scores, order, rng) ==
    LET missing_categories == SuggestionCategories \ DOMAIN skills_analysis
        low_diversity == Get(scores, "skills_diversity", 0) < 70
        diversity ==
            IF low_diversity
            THEN SeededChoiceForEach(
                     Slice(ListOf(missing_categories, order), 0, 2),
                     "missing_category", SkillTemplates, rng)
            ELSE [ list |-> << >>, rng |-> rng ]
        low_quantity == Get(scores, "skills_quantity", 0) < 70
        few == SelectSeq(ItemsOrder(SkillsDatabaseOrder, skills_analysis),
                         LAMBDA c : skills_analysis[c] < 3)
        quantity ==
            IF low_quantity
            THEN SeededChoiceForEach(few, "few_skills", SkillTemplates,
                                     diversity.rng)
            ELSE [ list |-> << >>, rng |-> diversity.rng ]
    IN  [ list |->
              When(low_diversity, "skills_diversity") \o diversity.list
              \o When(low_quantity, "skills_quantity") \o quantity.list,
          rng |-> quantity.rng ]

generate_section_suggestions_seeded(sections_analysis, scores, rng) ==
    LET essential ==
            MissingEssential(<< "experience", "education", "skills" >>,
                             sections_analysis)
        important ==
            SeededChoiceForEach(
                SelectSeq(<< "summary", "projects" >>,
                          LAMBDA t : ~SectionPresent(sections_analysis, t)),
                "add_section", SectionTemplates, rng)
        existing ==
            SelectSeq(ItemsOrder(SectionOrder, sections_analysis),
                      LAMBDA t : sections_analysis[t] /\ t \in SuggestedSections)
        improve ==
            IF Get(scores, "sections_completeness", 0) < 80
            THEN SeededChoiceForEach(existing, "improve_section",
                                     SectionTemplates, important.rng)
            ELSE [ list |-> << >>, rng |-> important.rng ]
    IN  [ list |-> essential \o important.list \o improve.list,
          rng |-> improve.rng ]

\* pool without its i-th element
Remove(pool, i) == SubSeq(pool, 1, i - 1) \o SubSeq(pool, i + 1, Len(pool))

RECURSIVE SeededSample(_, _, _)
\* random.sample(pool, k)
SeededSample(pool, k, rng) ==
    IF k = 0 THEN [ list |-> << >>, rng |-> rng ]
    ELSE LET i == Draw(rng, Len(pool))
             rest == SeededSample(Remove(pool, i), k - 1, Advance(rng))
         IN  [ list |-> << pool[i] >> \o rest.list, rng |-> rest.rng ]

generate_formatting_suggestions_seeded(detailed_scores, rng) ==
    LET pool == [ i \in 1..Min(NumFormattingTips, MaxFormattingTips) |-> i ]
        formatting_tips == SeededSample(pool, 3, rng)
    IN  [ list |->
              [ i \in 1..3 |->
                  Suggestion("formatting", << >>, formatting_tips.list[i]) ],
          rng |-> formatting_tips.rng ]

generate_content_enhancement_tips_seeded(rng) ==
    [ list |->
          << Suggestion("action_verbs", << >>, Draw(rng, MaxVerbSamples)),
             Suggestion("quantify_achievements", << >>,
                        Draw(Advance(rng), MaxMetricSamples)) >>,
      rng |-> Advance(Advance(rng)) ]

RECURSIVE CriticalSuggestionsSeeded(_, _, _, _, _)
\* the loop over improvement_priority
CriticalSuggestionsSeeded(priorities, analysis, scores, order, rng) ==
    IF priorities = << >> THEN [ list |-> << >>, rng |-> rng ]
    ELSE LET generator == GeneratorFor[Head(priorities)]
             first ==
                 IF generator = "skills"
                 THEN generate_skill_suggestions_seeded(
                          Get(analysis, "skills", EmptyMap), scores,
                          order, rng)
                 ELSE IF generator = "section"
                 THEN generate_section_suggestions_seeded(
                          Get(analysis, "sections", EmptyMap),
                          scores, rng)
                 ELSE IF generator = "content"
                 THEN [ list |-> generate_content_suggestions(
                                     analysis, scores),
                        rng |-> rng ]
                 ELSE [ list |-> << >>, rng |-> rng ]
             rest == CriticalSuggestionsSeeded(Tail(priorities), analysis,
                                               scores, order,
                                               first.rng)
         IN  [ list |-> Slice(first.list, 0, 2) \o rest.list,
               rng |-> rest.rng ]

generate_priority_suggestions_seeded(analysis, rating, order, rng) ==
    LET detailed_scores == Get(rating, "detailed_scores", EmptyMap)
        improvement_priority == Get(rating, "improvement_priority", << >>)
        critical ==
            CriticalSuggestionsSeeded(improvement_priority, analysis,
                                      detailed_scores, order, rng)
        content == generate_content_suggestions(analysis, detailed_scores)
        section ==
            generate_section_suggestions_seeded(
                Get(analysis, "sections", EmptyMap), detailed_scores,
                critical.rng)
        formatting ==
            generate_formatting_suggestions_seeded(detailed_scores,
                                                   section.rng)
        tips == generate_content_enhancement_tips_seeded(formatting.rng)
    IN  [ critical |-> Dedup(critical.list),
          important |->
              Dedup(Slice(content, 2, 4) \o Slice(section.list, 2, 4)),
          enhancement |->
              Dedup(Slice(formatting.list, 0, 2) \o Slice(tips.list, 0, 3)) ]

\* the ideal resume with three programming languages as its only skills
OneCategoryBundle ==
    Bundle([c \in {"programming_languages"} |-> 3], AllContact, AllSections,
           IdealReadability, IdealProjects)

\* bundles the pipeline is run on repeatedly
RepeatBundles == SuggestBundles \cup { OneCategoryBundle }

InitRepeat ==
    /\ analysis_result \in RepeatBundles
    /\ seed \in Seeds
    /\ hash_order \in HashOrders
    /\ runs = << >>
    /\ fn = "none"
    /\ ret = -1
    /\ calls = {}
    /\ rating_result = NoResult
    /\ suggestions_result = NoResult
    /\ AppNotStarted
    /\ AnalyzerNotCalled

\* random.seed(seed); rate_resume(analysis); generate_suggestions(...)
RunPipeline ==
    /\ Len(runs) < MaxRuns
    /\ LET rating == calculate_overall_score(analysis_result)
           tiers == generate_priority_suggestions_seeded(
                        analysis_result, rating, hash_order, Seeded(seed))
       IN  runs' = Append(runs, [ report |-> rating, tiers |-> tiers,
                                  order |-> hash_order ])
    /\ UNCHANGED <<analysis_result, fn, ret, calls, rating_result,
                   suggestions_result, appVars, analyzerVars, seed,
                   hash_order>>

\* the interpreter is started again: the string hashes are salted anew
RestartProcess ==
    /\ Len(runs) < MaxRuns
    /\ hash_order' \in HashOrders \ { hash_order }
    /\ UNCHANGED <<analysis_result, fn, ret, calls, rating_result,
                   suggestions_result, appVars, analyzerVars, seed, runs>>

NextRepeat ==
    \/ RunPipeline
    \/ RestartProcess

SpecRepeat == InitRepeat /\ [][NextRepeat]_vars

\* every seeded run is one of the outcomes of the unseeded generators
SeededRunIsAnOutcome ==
    \A i \in 1..Len(runs) :
        runs[i].tiers \in generate_priority_suggestions(analysis_result,
                                                        runs[i].report)

\* runs of the same bundle with the same seed report the same scores
ReportsAgree ==
    \A i, j \in 1..Len(runs) : runs[i].report = runs[j].report

\* runs inside one interpreter process fill the tiers alike
RunsOfOneProcessAgree ==
    \A i, j \in 1..Len(runs) :
        runs[i].order = runs[j].order => runs[i].tiers = runs[j].tiers

\* C14: for a fixed input and a fixed random seed, two runs of score ->
\* suggest yield the same ScoreReport and the same members in each
\* suggestion tier; nothing but the input and the seed decides the output.
RepeatedRunsAgree ==
    \A i, j \in 1..Len(runs) :
        /\ runs[i].report = runs[j].report
        /\ runs[i].tiers = runs[j].tiers

----------------------------------------------------------------------------
(* The two reference resumes, checked under SpecScore *)

IsBareBones(bundle) ==
    /\ ~HasError(bundle)
    /\ bundle.skills = EmptyMap
    /\ bundle.contact_info = EmptyMap
    /\ bundle.projects = << >>
    /\ { t \in DOMAIN bundle.sections : bundle.sections[t] } = {"skills"}
    /\ WordCountOf(bundle) = 80

\* the titles in improvement_priority
Flagged(rating) ==
    { rating.improvement_priority[i] :
          i \in 1..Len(rating.improvement_priority) }

\* C22: the bare-bones resume (no skills, only a skills section, no
\* projects, no contact field, 80 words, any sentence length and complexity)
\* gets an overall score below 3.0, is rated Poor, and has both skills
\* criteria among its improvement priorities.
BareBonesRatedPoor ==
    (Rated /\ IsBareBones(analysis_result))
        => /\ rating_result.overall_score < 30
           /\ rating_result.rating_category = "Poor"
           /\ {"Skills Diversity", "Skills Quantity"}
                  \subseteq Flagged(rating_result)

\* a bare-bones resume of ideal readability was rated
BareBonesWithBestReadabilityRated ==
    /\ Rated
    /\ IsBareBones(analysis_result)
    /\ rating_result.detailed_scores["readability"] = 100
    /\ rating_result.overall_score = 20

IsIdealResume(bundle) ==
    /\ ~HasError(bundle)
    /\ Cardinality(DOMAIN bundle.skills) = 5
    /\ SumOver(bundle.skills, DOMAIN bundle.skills) = 18
    /\ DOMAIN bundle.sections = SectionNames
    /\ \A t \in SectionNames : bundle.sections[t]
    /\ Len(bundle.projects) = 3
    /\ \A i \in 1..3 : bundle.projects[i] >= 15
    /\ DOMAIN bundle.contact_info = ContactFields
    /\ bundle.readability = Readability(450, 1400, 30)

\* C23: the ideal resume (18 skills in 5 categories, all 8 sections, 3
\* projects of 15 words or more, all four contact fields, 450 words,
\* avg_sentence_length 14, complexity_ratio 0.3) gets an overall score of at
\* least 8.5, is rated Excellent, and has no improvement priority.
IdealResumeRatedExcellent ==
    (Rated /\ IsIdealResume(analysis_result))
        => /\ rating_result.overall_score >= 85
           /\ rating_result.rating_category = "Excellent"
           /\ rating_result.improvement_priority = << >>

\* an ideal resume with 14 skills in one category and three projects of
\* exactly 15 words was rated
IdealResumeAtProjectThresholdRated ==
    /\ Rated
    /\ IsIdealResume(analysis_result)
    /\ \E c \in DOMAIN analysis_result.skills : analysis_result.skills[c] = 14
    /\ analysis_result.projects = << 15, 15, 15 >>
    /\ rating_result.detailed_scores["content_length"] = 96

----------------------------------------------------------------------------
(* The report against its own detailed scores, checked under SpecScore *)

\* C27: every criterion in improvement_priority has a reported (one-decimal)
\* detailed score strictly below 7.0; no criterion reported with 7.0 or more
\* is flagged for improvement.
FlaggedCriteriaReportedBelowSeven ==
    RatedWell
        => \A c \in CriteriaSet :
               TitleOf[c] \in Flagged(rating_result)
                   => rating_result.detailed_scores[c] < 70

\* the weighted sum of the reported detailed scores, rounded to one decimal
RecomputedOverall(rating) ==
    LET weighted == [c \in CriteriaSet |-> rating.detailed_scores[c] * weights[c]]
    IN  RoundHalfEven(SumOver(weighted, CriteriaSet), 100)

\* C28: overall_score equals the weighted sum of the seven values the report
\* carries in detailed_scores, rounded to one decimal.
OverallRecomputableFromReport ==
    RatedWell => rating_result.overall_score = RecomputedOverall(rating_result)

----------------------------------------------------------------------------
(* The enhancement tier, checked under SpecSuggest *)

OfKind(tier, kind) == { x \in tier : x.kind = kind }

\* C29: for every bundle and report, error-flagged ones included, the
\* enhancement tier holds exactly 4 distinct suggestions (2 formatting tips,
\* the action-verb tip and the metrics tip); so the action plan is never
\* empty and its last entry is the Low Priority one.
EnhancementTierHasFour ==
    Suggested
        => /\ Cardinality(Tiers.enhancement) = 4
           /\ Cardinality(OfKind(Tiers.enhancement, "formatting")) = 2
           /\ Cardinality(OfKind(Tiers.enhancement, "action_verbs")) = 1
           /\ Cardinality(OfKind(Tiers.enhancement,
                                 "quantify_achievements")) = 1
           /\ LET plan == suggestions_result.action_plan
              IN  /\ plan # << >>
                  /\ plan[Len(plan)].priority = "Low Priority"
                  /\ plan[Len(plan)].items \subseteq Tiers.enhancement

\* suggestions were generated from an error-flagged bundle and its report
SuggestedFromErrorReport ==
    /\ Suggested
    /\ HasError(analysis_result)
    /\ HasError(rating_result)
    /\ Cardinality(Tiers.enhancement) = 4
    /\ Tiers.critical = {}

----------------------------------------------------------------------------
(* The session of app.py across uploads, checked under Spec *)

\* the report is offered by a complete run and is built from its results
ReportIsOfThisRun ==
    /\ download # NoResult
           => /\ app = "app"
              /\ stages = PipelineOrder
              /\ ~RunFailed
              /\ download =
                     generate_report_download(
                         [ analysis |-> analysis_result,
                           rating |-> rating_result,
                           suggestions |-> suggestions_result,
                           summary |-> summary_result,
                           metadata |-> parsing_result.metadata ])
    /\ (pc = "done" /\ RunFailed) => download = NoResult

\* session_state is written only by a run whose five stages have completed
\* without failure, and with the results of that run
StoredAfterFiveStages ==
    session_state' # session_state
        => /\ stages' = SubSeq(PipelineOrder, 1, 5)
           /\ ~RunFailed'
           /\ session_state'.analysis_data =
                  [ analysis |-> analysis_result',
                    rating |-> rating_result',
                    suggestions |-> suggestions_result',
                    summary |-> summary_result',
                    metadata |-> parsing_result'.metadata ]

\* C30: across any sequence of uploads in one session of app.py, the
\* analysis_data in session state is written only after all five stages of
\* a run completed without failure, and the report offered in a run is
\* built from that run's analysis, rating, suggestions, summary and
\* metadata, never from a previous upload's; a failed run offers none.
ReportNeverStale ==
    /\ []ReportIsOfThisRun
    /\ [][StoredAfterFiveStages]_vars

\* a later upload has been analysed, rated and given suggestions while the
\* session still holds the results of a different resume
OtherResumeStoredBeforeSummary ==
    /\ app = "app"
    /\ pc = "summarize"
    /\ "analysis_data" \in DOMAIN session_state
    /\ session_state.analysis_data.analysis # analysis_result
    /\ session_state.analysis_data.metadata # parsing_result.metadata

----------------------------------------------------------------------------
(* The parsing result and what the applications do with it, under Spec *)

Parsed == parsing_result # NoResult

\* the four checks of validation on the uploaded file
PassesValidation(file) ==
    /\ file # NoResult
    /\ Lower[file.ext] = "pdf"
    /\ file.size <= MaxFileSize
    /\ file.readable

----------------------------------------------------------------------------
\* The extractors of TextAnalyzer on a text: detect_projects,
\* analyze_contact_info and calculate_readability.  A text is given by what
\* the tokenizers and the patterns find in it.

\* sentences of a text for detect_projects
MaxSentences == 7
\* matches of one contact pattern in a text
MaxMatches == 2
\* sentences and words TextBlob counts in a text
MaxBlobSentences == 3
MaxBlobWords == 10

\* detect_projects keeps a sentence of more than this many words
MinProjectWords == 8
\* detect_projects returns this many sentences at most
NumProjectsReturned == 5
\* calculate_readability counts a word longer than this as complex
ComplexWordLength == 6

\* one sentence of sent_tokenize(text): its place in the text, the length of
\* sentence.split() and whether its lower case holds a project indicator
Sentence(id, words, indicator) ==
    [ id |-> id, words |-> words, indicator |-> indicator ]

\* one match of a pattern: the matched text and the text of the pattern's
\* first group
Match(text, group) == [ text |-> text, group |-> group ]

\* what TextBlob(text) counts: sentences, words, words of more than
\* ComplexWordLength letters
Blob(sentences, words, complex) ==
    [ sentences |-> sentences, words |-> words, complex |-> complex ]

NoMatches ==
    [ email |-> << >>, phone |-> << >>, linkedin |-> << >>, github |-> << >> ]

Document(sentences, matches, blob) ==
    [ sentences |-> sentences, matches |-> matches, blob |-> blob ]

\* a sentence that qualifies as a project, one too short by a word, one
\* without an indicator
SentenceKinds ==
    { <<MinProjectWords + 1, TRUE>>, <<MinProjectWords, TRUE>>,
      <<MinProjectWords + 1, FALSE>> }

SentenceLists ==
    UNION { { [ i \in 1..n |-> Sentence(i, k[i][1], k[i][2]) ] :
                k \in [1..n -> SentenceKinds] } : n \in 0..MaxSentences }

MatchLists(found) == UNION { [1..n -> found] : n \in 0..MaxMatches }

\* the phone pattern's only group is the optional country code
PhoneMatches ==
    { Match("555-123-4567", ""), Match("+1 555-123-4567", "+1 ") }

\* linkedin and github are searched in text.lower()
ContactMatches ==
    { [ email |-> e, phone |-> p, linkedin |-> l, github |-> g ] :
        e \in MatchLists({ Match("a@b.com", ""), Match("c@d.org", "") }),
        p \in MatchLists(PhoneMatches),
        l \in MatchLists({ Match("linkedin.com/in/ann", "") }),
        g \in MatchLists({ Match("github.com/ann", "") }) }

\* a text without sentences has no words; a text of punctuation has
\* sentences and no words
Blobs ==
    { Blob(s, w, c) : s \in 0..MaxBlobSentences,
                      w \in 0..MaxBlobWords, c \in 0..MaxBlobWords } 

Documents ==
    { Document(s, NoMatches, Blob(0, 0, 0)) : s \in SentenceLists }
    \cup { Document(<< >>, m, Blob(0, 0, 0)) : m \in ContactMatches }
    \cup { Document(<< >>, NoMatches, b) :
             b \in { x \in Blobs : /\ x.complex <= x.words
                                   /\ (x.sentences = 0 => x.words = 0) } }

Qualifies(sentence) ==
    sentence.indicator /\ sentence.words > MinProjectWords

\* projects[-5:] in place of projects[:5]
detect_projects_last(text) ==
    LET projects == SelectSeq(text.sentences, Qualifies)
    IN  SubSeq(projects, Max(1, Len(projects) - NumProjectsReturned + 1), Len(projects))

detect_projects(text) ==
    Take(SelectSeq(text.sentences, Qualifies), NumProjectsReturned)

\* re.findall(pattern, text): the matched texts of a pattern without groups,
\* the texts of the group of a pattern with one group
findall(found, groups) ==
    [ i \in 1..Len(found) |->
        IF groups = 0 THEN found[i].text ELSE found[i].group ]

FirstOf(name, found) ==
    IF found # << >> THEN [ n \in {name} |-> found[1] ] ELSE EmptyMap

analyze_contact_info(text) ==
    FirstOf("email", findall(text.matches.email, 0))
    @@ FirstOf("phone", findall(text.matches.phone, 1))
    @@ FirstOf("linkedin", findall(text.matches.linkedin, 0))
    @@ FirstOf("github", findall(text.matches.github, 0))

\* max(1, 10 - avg_sentence_length / 3 - complexity_ratio * 5) in hundredths,
\* of the unrounded average and ratio
ReadabilityScore(sentences, words, complex) ==
    LET den == 3 * sentences * words
        num == 30 * sentences * words - words * words - 15 * complex * sentences
    IN  IF num <= den THEN 100 ELSE RoundHalfEven(100 * num, den)

\* avg_sentence_length, complexity_ratio and readability_score in hundredths
calculate_readability(text) ==
    LET sentences == text.blob.sentences
        words == text.blob.words
    IN  IF sentences = 0 \/ words = 0
        THEN [ readability_score |-> 0, avg_sentence_length |-> 0,
               word_count |-> words ]
        ELSE [ readability_score |->
                   ReadabilityScore(sentences, words, text.blob.complex),
               avg_sentence_length |-> RoundHalfEven(100 * words, sentences),
               word_count |-> words,
               sentence_count |-> sentences,
               complexity_ratio |->
                   RoundHalfEven(100 * text.blob.complex, words) ]

InitExtract ==
    /\ resume_text \in Documents
    /\ job_title = NoResult
    /\ comparison_result = NoResult
    /\ analysis_result = NoResult
    /\ fn = "none"
    /\ ret = -1
    /\ calls = {}
    /\ rating_result = NoResult
    /\ suggestions_result = NoResult
    /\ AppNotStarted
    /\ NotRepeated

Extract(name, key, value) ==
    /\ fn = "none"
    /\ fn' = name
    /\ analysis_result' = [ k \in {key} |-> value ]
    /\ UNCHANGED <<ret, calls, rating_result, suggestions_result, appVars,
                   analyzerVars, repeatVars>>

CallDetectProjects ==
    Extract("detect_projects", "projects", detect_projects(resume_text))

CallAnalyzeContactInfo ==
    Extract("analyze_contact_info", "contact_info",
            analyze_contact_info(resume_text))

CallCalculateReadability ==
    Extract("calculate_readability", "readability",
            calculate_readability(resume_text))

NextExtract ==
    \/ CallDetectProjects
    \/ CallAnalyzeContactInfo
    \/ CallCalculateReadability

SpecExtract == InitExtract /\ [][NextExtract]_vars

----------------------------------------------------------------------------
\* The extractors against the text

Ran(name) == fn = name

ProjectsOf == analysis_result.projects

\* the sentence is one of the returned ones
Returned(sentence) == \E i \in 1..Len(ProjectsOf) : ProjectsOf[i] = sentence

SentencesOf == { resume_text.sentences[i] : i \in 1..Len(resume_text.sentences) }

ContactOf == analysis_result.contact_info

\* C25: a contact field is present exactly when its pattern matched, holds
\* the text of the first match, and is never the empty string.
ContactFieldsHoldFirstMatch ==
    Ran("analyze_contact_info")
        => \A field \in ContactFields :
             /\ field \in DOMAIN ContactOf <=> resume_text.matches[field] # << >>
             /\ field \in DOMAIN ContactOf
                  => /\ ContactOf[field] = resume_text.matches[field][1].text
                     /\ ContactOf[field] # ""

\* the fields other than phone do hold their first match
OtherFieldsHoldFirstMatch ==
    Ran("analyze_contact_info")
        => \A field \in ContactFields \ {"phone"} :
             /\ field \in DOMAIN ContactOf <=> resume_text.matches[field] # << >>
             /\ field \in DOMAIN ContactOf
                  => ContactOf[field] = resume_text.matches[field][1].text

ReadabilityOf == analysis_result.readability

DerivedMetrics == {"avg_sentence_length", "complexity_ratio", "readability_score"}

\* C24: for a text of zero sentences or zero words the readability map
\* carries avg_sentence_length, complexity_ratio and readability_score, each
\* with value 0.
ZeroTextGivesZeroMetrics ==
    ( /\ Ran("calculate_readability")
      /\ (resume_text.blob.sentences = 0 \/ resume_text.blob.words = 0) )
        => \A metric \in DerivedMetrics :
             /\ metric \in DOMAIN ReadabilityOf
             /\ ReadabilityOf[metric] = 0

\* what the guard does give: the two metrics it names are 0, and the map is
\* the one score_readability is given for a text without words
ZeroTextGivesGuardMap ==
    ( /\ Ran("calculate_readability")
      /\ (resume_text.blob.sentences = 0 \/ resume_text.blob.words = 0) )
        => /\ ReadabilityOf = ZeroReadability
           /\ "complexity_ratio" \notin DOMAIN ReadabilityOf

====
